---- MODULE Spec2Model ----
(***************************************************************************)
(* Model of app_rtsp_sip.c: the RTSP player of main_loop (DESCRIBE, SETUP, *)
(* PLAY, PLAYING, TEARDOWN), the helpers it calls, and the event loop that *)
(* drives it.  One action models one whole pass of the while loop of       *)
(* main_loop for one kind of readiness event, the keep-alive block at the  *)
(* bottom of the loop body included.                                       *)
(***************************************************************************)
EXTENDS Integers, Sequences, FiniteSets, TLC

(***************************************************************************)
(* Program constants.                                                      *)
(***************************************************************************)
RTSP_NONE == 0
RTSP_DESCRIBE == 1
RTSP_SETUP_AUDIO == 2
RTSP_SETUP_VIDEO == 3
RTSP_PLAY == 4
RTSP_PLAYING == 5
RTSP_RELEASED == 6

SIP_STATE_NONE == 0
SIP_STATE_OPTIONS == 1
SIP_STATE_INVITE == 2

\* int bufferSize = 16383 in main_loop
bufferSize == 16383
\* the 4 seconds timeout of the readiness wait while no playback timer runs
IdleTimeoutMs == 4000
\* the RTCP / keep-alive period of state PLAYING
RtcpPeriodMs == 10000
\* GetResponseCode needs 12 bytes before it reads the status code
MinStatusLen == 12
\* the size of the RTP and RTCP receive buffers
PKT_PAYLOAD == 9000
\* sizeof(struct RtpHeader)
RtpHeaderLen == 12

(***************************************************************************)
(* Bounds of the model.                                                    *)
(***************************************************************************)
\* bytes of the status line and headers (blank line included) of a response
HdrLen == 8000
\* bytes of the body of a response that has one
BodyLen == 100
\* the clock stops advancing here
MaxTime == 36001
\* send() failures the environment may inject in one run
MaxSendFail == 1
\* messages the SIP peer sends once it has an INVITE: responses to it,
\* repeated ones included, and requests of its own
MaxAnswers == 2
\* characters of a Session header value
MaxSessLen == 2

\* the instants at which an event can end the readiness wait: at once, or
\* half an idle timeout later
TimeStep == IdleTimeoutMs \div 2

(***************************************************************************)
(* Strings are sequences of characters; NULL is the null pointer.          *)
(***************************************************************************)
NULL == <<"NULL">>
SessChars == {"a", "b", ";"}

RECURSIVE SeqsUpTo(_, _)
SeqsUpTo(S, n) ==
  IF n = 0 THEN {<<>>}
  ELSE LET shorter == SeqsUpTo(S, n - 1)
       IN shorter \cup {Append(s, c) : s \in {t \in shorter : Len(t) = n - 1}, c \in S}

\* the values a Session header can carry
SessionValues == SeqsUpTo(SessChars, MaxSessLen)

\* strchr(session, ';'): index of the first ';', 0 when there is none
FirstSemi(s) ==
  IF \E i \in 1..Len(s) : s[i] = ";"
  THEN CHOOSE i \in 1..Len(s) : s[i] = ";" /\ \A j \in 1..(i - 1) : s[j] # ";"
  ELSE 0

\* if ((p=strchr(session,';'))>0) *p = 0;
StripParams(s) == IF FirstSemi(s) > 0 THEN SubSeq(s, 1, FirstSemi(s) - 1) ELSE s


(***************************************************************************)
(* Authentication: the challenges of a 401 and the Authorization header.   *)
(* A challenge is its scheme token and the realm and nonce parameters it   *)
(* carries ("" when the parameter is absent); form "bare" is a challenge   *)
(* with no parameter list (nothing, or a token68, follows the scheme).     *)
(***************************************************************************)
Challenge(scheme, form, realm, nonce) ==
  [scheme |-> scheme, form |-> form, realm |-> realm, nonce |-> nonce]

NoAuth == [scheme |-> "none", realm |-> "", nonce |-> ""]

\* the parameters CheckAuthScheme hands back: rc is its return code
NoMatch == [rc |-> -10, realm |-> "", nonce |-> ""]

\* one pass of the do/while of CheckAuthScheme over one challenge
CheckAuthStep(acc, c, scheme_to_match) ==
  LET rc == IF c.scheme = scheme_to_match THEN 0 ELSE acc.rc
  IN IF c.form = "bare"
     THEN [rc |-> rc, realm |-> "", nonce |-> ""]
     ELSE IF rc = 0
          THEN [rc |-> rc, realm |-> c.realm, nonce |-> c.nonce]
          ELSE [acc EXCEPT !.rc = rc]

RECURSIVE CheckAuthFrom(_, _, _, _)
CheckAuthFrom(chals, i, acc, scheme_to_match) ==
  IF i > Len(chals) THEN acc
  ELSE CheckAuthFrom(chals, i + 1, CheckAuthStep(acc, chals[i], scheme_to_match),
                     scheme_to_match)

\* CheckAuthScheme over the challenges of all WWW-Authenticate headers, in
\* the order they stand in the message
CheckAuthScheme(chals, scheme_to_match) ==
  CheckAuthFrom(chals, 1, NoMatch, scheme_to_match)

GetAuthSchemeBasic(chals) ==
  IF CheckAuthScheme(chals, "Basic").rc = 0 THEN 0 ELSE -1

\* return code, and digest_data (rx_realm and nonce)
GetAuthSchemeDigest(chals) ==
  LET found == CheckAuthScheme(chals, "Digest")
  IN IF found.rc = 0
     THEN [rc |-> 0, rx_realm |-> found.realm, nonce |-> found.nonce]
     ELSE [rc |-> -1, rx_realm |-> "", nonce |-> ""]

\* "Authorization: Basic " base64(username:password)
RtspPlayerBasicAuthorization(p) ==
  [p EXCEPT !.authorization = [scheme |-> "Basic", realm |-> "", nonce |-> ""]]

\* returns -1 and leaves the player alone when the realms differ, else sets
\* the Digest header computed from rx_realm and nonce
RtspPlayerDigestAuthorization(p, cfg_realm, nonce, rx_realm) ==
  IF cfg_realm # rx_realm
  THEN [p |-> p, ret |-> -1]
  ELSE [p |-> [p EXCEPT !.authorization =
                 [scheme |-> "Digest", realm |-> rx_realm, nonce |-> nonce]],
        ret |-> 1]

(***************************************************************************)
(* The player object.                                                      *)
(***************************************************************************)
\* src_tag, call_id and branch_id are drawn from random(): the draws of the
\* constructor are written 0, every later draw is a number not drawn before
RtspPlayerCreate ==
  [state |-> RTSP_NONE, cseq |-> 1, session |-> <<>>, numSessions |-> 0,
   end |-> 0, url |-> NULL, authorization |-> NoAuth, in_a_dialog |-> 0,
   cseqm |-> [OPTIONS |-> 1, INVITE |-> 1, ACK |-> 1, BYE |-> 1],
   src_tag |-> 0, call_id |-> 0, branch_id |-> 0, peer_tag |-> <<>>]

\* RtspPlayerAddSession looking for the identifier as received, parameters
\* and all, among the bound ones
AddSessionUnstripped(p, session) ==
  IF p.numSessions = 2 THEN p
  ELSE IF \E i \in 1..p.numSessions : p.session[i] = session
       THEN p
       ELSE [p EXCEPT !.session = Append(@, StripParams(session)), !.numSessions = @ + 1]

RtspPlayerAddSession(p, session) ==
  IF p.numSessions = 2 THEN p
  ELSE LET id == StripParams(session)
       IN IF \E i \in 1..p.numSessions : p.session[i] = id
          THEN p
          ELSE [p EXCEPT !.session = Append(@, id), !.numSessions = @ + 1]

(***************************************************************************)
(* Requests.  A machine m is the player p together with the requests       *)
(* handed to send() during the current step (sent), the outcomes send()    *)
(* will have (outs: "ok", "eagain", "error") and the number of responses   *)
(* the server still owes (owed).                                           *)
(***************************************************************************)
SendOutcomes == {"ok", "eagain", "error"}

\* a request as it stands in the buffer handed to send(): the SIP requests
\* carry the tags, the Call-ID and the Via branch of the speaker, and the
\* INVITE the audio format it offers
Request(method, url, session, p) ==
  [method |-> method, url |-> url, session |-> session,
   authorization |-> p.authorization, cseq |-> p.cseq, ok |-> FALSE,
   src_tag |-> p.src_tag, peer_tag |-> p.peer_tag, call_id |-> p.call_id,
   branch_id |-> p.branch_id, offer |-> ""]

\* send() of one request; ret is the length sent, 0 on failure
SendRequest(m, req) ==
  LET out == Head(m.outs)
      logged == [m EXCEPT !.sent = Append(@, [req EXCEPT !.ok = (out = "ok")]),
                          !.outs = Tail(@)]
  IN CASE out = "ok" -> [m |-> [logged EXCEPT !.owed = @ + 1], ret |-> 1]
       [] out = "eagain" -> [m |-> logged, ret |-> 0]
       [] OTHER -> [m |-> [logged EXCEPT !.p.end = 0], ret |-> 0]

\* session[numSessions-1], the Session header of SETUP and OPTIONS
LastSession(p) == IF p.numSessions > 0 THEN p.session[p.numSessions] ELSE NULL

RtspPlayerOptions(m, url) ==
  LET s == SendRequest(m, Request("OPTIONS", url, LastSession(m.p), m.p))
  IN IF s.ret = 0 THEN s
     ELSE [m |-> [s.m EXCEPT !.p.cseq = @ + 1], ret |-> 1]

\* a DESCRIBE that counts the request whether or not it was sent
DescribeCountingFailures(m, url) ==
  LET s == SendRequest(m, Request("DESCRIBE", url, NULL, m.p))
  IN IF s.ret = 0 THEN [s EXCEPT !.m.p.cseq = @ + 1]
     ELSE [m |-> [s.m EXCEPT !.p.url = url, !.p.state = RTSP_DESCRIBE,
                             !.p.cseq = @ + 1],
           ret |-> 1]

RtspPlayerDescribe(m, url) ==
  LET s == SendRequest(m, Request("DESCRIBE", url, NULL, m.p))
  IN IF s.ret = 0 THEN s
     ELSE [m |-> [s.m EXCEPT !.p.url = url, !.p.state = RTSP_DESCRIBE,
                             !.p.cseq = @ + 1],
           ret |-> 1]

RtspPlayerSetupAudio(m, url) ==
  LET s == SendRequest(m, Request("SETUP", url, LastSession(m.p), m.p))
  IN IF s.ret = 0 THEN s
     ELSE [m |-> [s.m EXCEPT !.p.state = RTSP_SETUP_AUDIO, !.p.cseq = @ + 1],
           ret |-> 1]

\* a SETUP that already claims the stream is playing
SetupVideoPlaying(m, url) ==
  LET s == SendRequest(m, Request("SETUP", url, LastSession(m.p), m.p))
  IN IF s.ret = 0 THEN s
     ELSE [m |-> [s.m EXCEPT !.p.state = RTSP_PLAYING, !.p.cseq = @ + 1],
           ret |-> 1]

RtspPlayerSetupVideo(m, url) ==
  LET s == SendRequest(m, Request("SETUP", url, LastSession(m.p), m.p))
  IN IF s.ret = 0 THEN s
     ELSE [m |-> [s.m EXCEPT !.p.state = RTSP_SETUP_VIDEO, !.p.cseq = @ + 1],
           ret |-> 1]

\* the for loop of RtspPlayerPlay and RtspPlayerTeardown from session i on:
\* one request per bound session, given up at the first send that fails
RECURSIVE SendPerSession(_, _, _)
SendPerSession(m, method, i) ==
  IF i > m.p.numSessions THEN [m |-> m, ret |-> 1]
  ELSE LET s == SendRequest(m, Request(method, m.p.url, m.p.session[i], m.p))
       IN IF s.ret = 0 THEN s
          ELSE SendPerSession([s.m EXCEPT !.p.cseq = @ + 1], method, i + 1)

RtspPlayerPlay(m) ==
  IF m.p.numSessions = 0 THEN [m |-> m, ret |-> 0]
  ELSE LET s == SendPerSession(m, "PLAY", 1)
       IN IF s.ret = 0 THEN s
          ELSE [m |-> [s.m EXCEPT !.p.state = RTSP_PLAY], ret |-> 1]

\* a teardown that tries once more when a send fails
TeardownRetrying(m) ==
  IF m.p.numSessions = 0 THEN [m |-> m, ret |-> 0]
  ELSE LET s == SendPerSession(m, "TEARDOWN", 1)
           again == SendPerSession(s.m, "TEARDOWN", 1)
       IN IF s.ret = 0
          THEN IF again.ret = 0 THEN again
               ELSE [m |-> [again.m EXCEPT !.p.state = RTSP_RELEASED], ret |-> 1]
          ELSE [m |-> [s.m EXCEPT !.p.state = RTSP_RELEASED], ret |-> 1]

RtspPlayerTeardown(m) ==
  IF m.p.numSessions = 0 THEN [m |-> m, ret |-> 0]
  ELSE LET s == SendPerSession(m, "TEARDOWN", 1)
       IN IF s.ret = 0 THEN s
          ELSE [m |-> [s.m EXCEPT !.p.state = RTSP_RELEASED], ret |-> 1]

(***************************************************************************)
(* Responses.  A response is the part of its status line and headers the   *)
(* player reads: the status code, the challenges of its WWW-Authenticate   *)
(* headers, Content-Type, Content-Length, Session, Transport, the end of   *)
(* its Range, and the session description it carries.  It arrives in one   *)
(* piece of HdrLen bytes of headers followed by clen bytes of body.        *)
(***************************************************************************)
URL == <<"url">>

\* an m= section: the formats that have an rtpmap, each with the a=control
\* of its section (NULL when the section has none)
Format(format, control) == [format |-> format, control |-> control]

\* a null struct ast_format pointer
NoFormat == ""

EmptySdp == [audio |-> <<>>, video |-> <<>>]

SdpAudios == {<<>>, <<Format("PCMU", <<"a1">>)>>}

SdpVideos ==
  {<<>>,
   <<Format("H264", <<"v1">>)>>,
   <<Format("H264", NULL)>>,
   <<Format("H263", <<"v0">>), Format("H264", <<"v1">>)>>}

Sdps == {[audio |-> a, video |-> v] : a \in SdpAudios, v \in SdpVideos}

\* ast_channel_nativeformats(chan)
NativeFormatSets == {{"PCMU", "H264"}, {"PCMU"}}

Challenges ==
  {Challenge("Basic", "params", "r1", ""),
   Challenge("Digest", "params", "r1", "n1"),
   Challenge("Bearer", "bare", "", "")}

ChallengeLists ==
  {<<>>} \cup {<<a>> : a \in Challenges}
         \cup {<<a, b>> : a \in Challenges, b \in Challenges}

\* Range: whether the header is there, whether its value has a '-', and the
\* number after the '-' in microseconds (0 when nothing follows the '-')
Range(present, dash, usec) == [present |-> present, dash |-> dash, usec |-> usec]

NoRange == Range(FALSE, FALSE, 0)

Ranges == {NoRange, Range(TRUE, FALSE, 0), Range(TRUE, TRUE, 0),
           Range(TRUE, TRUE, 500), Range(TRUE, TRUE, 4000000)}

Response(code) ==
  [code |-> code, chals |-> <<>>, ctype |-> "", clen |-> 0, sdp |-> EmptySdp,
   session |-> NULL, transport |-> FALSE, range |-> NoRange]

DescribeResponses ==
  {[Response(401) EXCEPT !.chals = c] : c \in ChallengeLists}
  \cup {Response(404), [Response(200) EXCEPT !.ctype = "text/plain"]}
  \cup {[Response(200) EXCEPT !.ctype = "application/sdp", !.clen = BodyLen,
                              !.sdp = s] : s \in Sdps}

\* the Session values a SETUP response carries
SetupSessions == {s \in SessionValues : StripParams(s) = <<"a">>}

SetupResponses ==
  {[Response(c) EXCEPT !.session = s, !.transport = t, !.clen = n] :
     c \in {200, 404}, s \in SetupSessions \cup {NULL}, t \in BOOLEAN,
     n \in {0, BodyLen}}

PlayResponses ==
  {[Response(c) EXCEPT !.range = e] : c \in {200, 404}, e \in Ranges}

\* the answers to the keep-alive OPTIONS
OptionsResponses == {Response(200)}

\* the answer to the SETUP of a second stream: the session of the first, or
\* a session of its own
SecondSetupResponses ==
  SetupResponses \cup {[Response(200) EXCEPT !.session = <<"b">>, !.transport = TRUE]}

\* what the server sends to a player p
ResponsesIn(p) ==
  CASE p.state = RTSP_DESCRIBE -> DescribeResponses
    [] p.state \in {RTSP_SETUP_AUDIO, RTSP_SETUP_VIDEO} ->
         IF p.numSessions = 0 THEN SetupResponses ELSE SecondSetupResponses
    [] p.state = RTSP_PLAY -> PlayResponses
    [] OTHER -> OptionsResponses

\* bytes of a response on the wire
RespLen(r) == HdrLen + r.clen

\* recv() and the bookkeeping around it.  rc is what the socket has: "data"
\* (len bytes are waiting), "closed", "eagain" or "error".  recv is asked
\* for bufferSize - bufferLen bytes and returns 0 when that is 0.
RecvResponse(bufLen, bufSize, end, rc, len) ==
  LET room == bufSize - bufLen
      n == CASE rc = "data" -> IF len < room THEN len ELSE room
             [] rc = "closed" -> 0
             [] OTHER -> -1
  IN IF n <= 0
     THEN [bufferLen |-> bufLen, end |-> IF rc # "eagain" THEN 1 ELSE end, ret |-> 0]
     ELSE [bufferLen |-> bufLen + n, end |-> end, ret |-> n]

\* atoi of the status code, -1 when fewer than 12 bytes are buffered
GetResponseCode(r, bufLen) == IF bufLen < MinStatusLen THEN -1 ELSE r.code

\* offset just past the first blank line
GetResponseLen(r) == HdrLen

(***************************************************************************)
(* The cases of the switch on player->state of main_loop.  c is the        *)
(* machine together with the locals of main_loop the cases use; rc and r   *)
(* are what the control socket has.                                        *)
(***************************************************************************)
SetEnd(c) == [c EXCEPT !.p.end = 1]

\* the RecvResponse call of a case, into the buffer of main_loop
RecvIntoBuffer(c, rc, r) ==
  LET rv == RecvResponse(c.bufferLen, bufferSize, c.p.end, rc, RespLen(r))
  IN [c |-> [c EXCEPT !.bufferLen = rv.bufferLen, !.p.end = rv.end], ret |-> rv.ret]

\* the first format of the video section the channel has a compatible
\* format for, 0 when there is none
FirstCompatible(video, native) ==
  IF \E i \in 1..Len(video) : video[i].format \in native
  THEN CHOOSE i \in 1..Len(video) :
         /\ video[i].format \in native
         /\ \A j \in 1..(i - 1) : video[j].format \notin native
  ELSE 0

\* the audio selection is compiled out (if (0)), the video selection picks
\* the first compatible format
SelectMedia(c, sdp, native) ==
  LET i == FirstCompatible(sdp.video, native)
  IN IF i = 0 THEN c
     ELSE [c EXCEPT !.videoNewFormat = sdp.video[i].format,
                    !.videoControl = sdp.video[i].control]

\* a dispatch that waits on when nothing was selected
DispatchSetupLenient(c) ==
  IF c.audioControl # NULL THEN RtspPlayerSetupAudio(c, c.audioControl).m
  ELSE IF c.videoControl # NULL /\ c.videoNewFormat # ""
       THEN RtspPlayerSetupVideo(c, c.videoControl).m
       ELSE c

\* SETUP for the selected media
DispatchSetup(c) ==
  IF c.audioControl # NULL THEN RtspPlayerSetupAudio(c, c.audioControl).m
  ELSE IF c.videoControl # NULL
       THEN IF c.videoNewFormat # "" THEN RtspPlayerSetupVideo(c, c.videoControl).m
            ELSE c
       ELSE SetEnd(c)

\* from "If there is not enough data" on
DescribeBody(c, r, native) ==
  IF c.bufferLen < c.contentLength THEN c
  ELSE DispatchSetup(SelectMedia([c EXCEPT !.bufferLen = @ - c.contentLength,
                                           !.contentLength = 0],
                                 r.sdp, native))

\* the 401 branch trying Digest before Basic
Describe401DigestFirst(c, r) ==
  LET dd == GetAuthSchemeDigest(r.chals)
      a == RtspPlayerDigestAuthorization(c.p, dd.rx_realm, dd.nonce, dd.rx_realm)
  IN IF dd.rc = 0 /\ a.ret > 0
     THEN RtspPlayerDescribe([c EXCEPT !.p = a.p], URL).m
     ELSE IF GetAuthSchemeBasic(r.chals) = 0
          THEN RtspPlayerDescribe([c EXCEPT !.p = RtspPlayerBasicAuthorization(@)], URL).m
          ELSE SetEnd(c)

Describe401(c, r) ==
  IF GetAuthSchemeBasic(r.chals) = 0
  THEN RtspPlayerDescribe([c EXCEPT !.p = RtspPlayerBasicAuthorization(@)], URL).m
  ELSE LET dd == GetAuthSchemeDigest(r.chals)
           a == RtspPlayerDigestAuthorization(c.p, dd.rx_realm, dd.nonce, dd.rx_realm)
       IN IF dd.rc = 0
          THEN IF a.ret > 0 THEN RtspPlayerDescribe([c EXCEPT !.p = a.p], URL).m
               ELSE SetEnd(c)
          ELSE SetEnd(c)

CaseDescribe(c0, rc, r, native) ==
  LET rv == RecvIntoBuffer(c0, rc, r)
      c == rv.c
      responseCode == GetResponseCode(r, c.bufferLen)
      responseLen == GetResponseLen(r)
  IN IF rv.ret = 0 THEN c
     ELSE IF responseCode = 401 THEN Describe401(c, r)
     ELSE IF responseCode < 200 \/ responseCode > 299 THEN SetEnd(c)
     ELSE IF c.contentLength = 0
          THEN IF responseLen = 0 THEN c
               ELSE IF r.ctype # "application/sdp"
                    THEN SetEnd([c EXCEPT !.contentLength = r.clen])
                    ELSE DescribeBody([c EXCEPT !.contentLength = r.clen,
                                                !.bufferLen = @ - responseLen],
                                      r, native)
          ELSE DescribeBody(c, r, native)

(***************************************************************************)
(* The requests of the SIP speaker.  c.rnd counts the draws from random()  *)
(* made for identifiers; c.invites lists the INVITEs that reached the      *)
(* peer.                                                                   *)
(***************************************************************************)
generateSrcTag(c) == [c EXCEPT !.rnd = @ + 1, !.sip.src_tag = c.rnd + 1]

generateBranch(c) == [c EXCEPT !.rnd = @ + 1, !.sip.branch_id = c.rnd + 1]

generateCallId(c) == [c EXCEPT !.rnd = @ + 1, !.sip.call_id = c.rnd + 1]

\* SendRequest on the speaker's own socket: it works on a scratch flag, so
\* the end flag is not touched; answers is the number of messages the peer
\* sends in answer to the request
SipSend(c, req, answers) ==
  LET s == SendRequest(c, req)
  IN IF s.ret = 0 THEN [m |-> [s.m EXCEPT !.p.end = c.p.end], ret |-> 0]
     ELSE [m |-> [s.m EXCEPT !.owed = c.owed, !.sipOwed = @ + answers], ret |-> 1]

SipSpeakerOptions(c) ==
  LET g == generateBranch(IF c.sip.in_a_dialog = 0
                          THEN generateCallId(generateSrcTag(c)) ELSE c)
      s == SipSend(g, Request("SIP OPTIONS", URL, NULL, g.sip), 1)
  IN IF s.ret = 0 THEN s
     ELSE [m |-> [s.m EXCEPT !.sip.state = SIP_STATE_OPTIONS,
                             !.sip.cseqm.OPTIONS = @ + 1],
           ret |-> 1]

\* an INVITE that draws a new From-tag and Call-ID for a retry as well
InviteRetagging(c, retry) ==
  IF c.audioFormat \notin {"PCMU", "PCMA"} THEN [m |-> c, ret |-> -1]
  ELSE LET g == generateBranch(IF c.sip.in_a_dialog = 0
                               THEN generateCallId(generateSrcTag(c)) ELSE c)
           req == [Request("SIP INVITE", URL, NULL, g.sip) EXCEPT
                     !.cseq = g.sip.cseqm.INVITE, !.offer = c.audioFormat]
           s == SipSend(g, req, MaxAnswers)
       IN IF s.ret = 0 THEN s
          ELSE [m |-> [s.m EXCEPT !.sip.state = SIP_STATE_INVITE,
                                  !.sip.cseqm.INVITE = @ + 1,
                                  !.invites = Append(@, [req EXCEPT !.ok = TRUE])],
                ret |-> 1]

\* the offer is PCMU or PCMA, any other audioFormat returns -1 before
\* anything is built
SipSpeakerInvite(c, retry) ==
  IF c.audioFormat \notin {"PCMU", "PCMA"} THEN [m |-> c, ret |-> -1]
  ELSE LET g == generateBranch(IF c.sip.in_a_dialog = 0 /\ retry = 0
                               THEN generateCallId(generateSrcTag(c)) ELSE c)
           req == [Request("SIP INVITE", URL, NULL, g.sip) EXCEPT
                     !.cseq = g.sip.cseqm.INVITE, !.offer = c.audioFormat]
           s == SipSend(g, req, MaxAnswers)
       IN IF s.ret = 0 THEN s
          ELSE [m |-> [s.m EXCEPT !.sip.state = SIP_STATE_INVITE,
                                  !.sip.cseqm.INVITE = @ + 1,
                                  !.invites = Append(@, [req EXCEPT !.ok = TRUE])],
                ret |-> 1]

\* response_type 2 draws a new branch, any other reuses branch_id
SipSpeakerAck(c, response_type) ==
  LET g == IF response_type = 2 THEN generateBranch(c) ELSE c
      req == [Request("SIP ACK", URL, NULL, g.sip) EXCEPT !.cseq = g.sip.cseqm.ACK]
  IN SipSend(g, req, 0)

\* no BYE outside a dialog
SipSpeakerBye(c) ==
  IF c.sip.in_a_dialog = 0 THEN [m |-> c, ret |-> 0]
  ELSE LET g == generateBranch(c)
           req == [Request("SIP BYE", URL, NULL, g.sip) EXCEPT !.cseq = g.sip.cseqm.BYE]
       IN SipSend(g, req, 1)

\* the checks without the one for Transport
SetupResponseAnyTransport(c0, rc, r) ==
  LET rv == RecvIntoBuffer(c0, rc, r)
      c == rv.c
      responseLen == GetResponseLen(r)
      bound == [c EXCEPT !.p = RtspPlayerAddSession(@, r.session)]
  IN IF rv.ret = 0 \/ responseLen = 0 THEN [c |-> c, ok |-> FALSE]
     ELSE IF r.clen # 0 \/ r.session = NULL THEN [c |-> SetEnd(c), ok |-> FALSE]
     ELSE [c |-> [bound EXCEPT !.bufferLen = @ - responseLen], ok |-> TRUE]

\* the checks the two SETUP cases share, up to the removal of the response
\* from the buffer; ok tells whether the case goes on to its next request
SetupResponse(c0, rc, r) ==
  LET rv == RecvIntoBuffer(c0, rc, r)
      c == rv.c
      responseLen == GetResponseLen(r)
      bound == [c EXCEPT !.p = RtspPlayerAddSession(@, r.session)]
  IN IF rv.ret = 0 \/ responseLen = 0 THEN [c |-> c, ok |-> FALSE]
     ELSE IF r.clen # 0 \/ r.session = NULL THEN [c |-> SetEnd(c), ok |-> FALSE]
     ELSE IF ~r.transport THEN [c |-> SetEnd(bound), ok |-> FALSE]
     ELSE [c |-> [bound EXCEPT !.bufferLen = @ - responseLen], ok |-> TRUE]

\* an audio case that plays at once, video selected or not
CaseSetupAudioPlaying(c0, rc, r) ==
  LET s == SetupResponse(c0, rc, r)
      played == RtspPlayerPlay(s.c).m
  IN IF ~s.ok THEN s.c
     ELSE IF s.c.sip_enable THEN SipSpeakerInvite(played, 0).m ELSE played

CaseSetupAudio(c0, rc, r) ==
  LET s == SetupResponse(c0, rc, r)
      played == RtspPlayerPlay(s.c).m
  IN IF ~s.ok THEN s.c
     ELSE IF s.c.videoControl # NULL
          THEN IF s.c.videoNewFormat # NoFormat
               THEN RtspPlayerSetupVideo(s.c, s.c.videoControl).m
               ELSE s.c
          ELSE IF s.c.sip_enable THEN SipSpeakerInvite(played, 0).m ELSE played

CaseSetupVideo(c0, rc, r) ==
  LET s == SetupResponse(c0, rc, r)
  IN IF ~s.ok THEN s.c ELSE RtspPlayerPlay(s.c).m

\* duration = atof(j+1)*1000, an int
RangeDuration(range) ==
  IF range.present /\ range.dash THEN range.usec \div 1000 ELSE -1

CasePlay(c0, rc, r) ==
  LET rv == RecvIntoBuffer(c0, rc, r)
      c == rv.c
      responseLen == GetResponseLen(r)
      d == RangeDuration(r.range)
  IN IF rv.ret = 0 \/ responseLen = 0 THEN c
     ELSE [c EXCEPT !.duration = d,
                    !.tv = IF d > 0 THEN c.now ELSE @,
                    !.bufferLen = @ - responseLen,
                    !.p.state = RTSP_PLAYING]

CasePlaying(c0, rc, r) == RecvIntoBuffer(c0, rc, r).c

\* switch (player->state) of the control socket branch
ControlSwitch(c, rc, r, native) ==
  CASE c.p.state = RTSP_DESCRIBE -> CaseDescribe(c, rc, r, native)
    [] c.p.state = RTSP_SETUP_AUDIO -> CaseSetupAudio(c, rc, r)
    [] c.p.state = RTSP_SETUP_VIDEO -> CaseSetupVideo(c, rc, r)
    [] c.p.state = RTSP_PLAY -> CasePlay(c, rc, r)
    [] c.p.state = RTSP_PLAYING -> CasePlaying(c, rc, r)
    [] OTHER -> c

\* the block at the bottom of the loop body: every RtcpPeriodMs of PLAYING
\* the receiver reports and the keep-alive OPTIONS go out
KeepAlive(c) ==
  IF c.p.state # RTSP_PLAYING THEN c
  ELSE IF c.rtcptv = 0 THEN [c EXCEPT !.rtcptv = c.now]
  ELSE IF c.now - c.rtcptv > RtcpPeriodMs
       THEN [RtspPlayerOptions(c, URL).m EXCEPT !.rtcptv = c.now]
       ELSE c

(***************************************************************************)
(* The messages of the SIP peer.  A message is a response (code, the       *)
(* challenges of its WWW-Authenticate headers, the tag of its To header,   *)
(* the branch of its topmost Via, which is the branch of the request it    *)
(* answers, Content-Type, Content-Length and the audio section of the      *)
(* session description it carries) or a request (method).                  *)
(***************************************************************************)
\* the sip_realm argument of main_loop
sip_realm == "r1"

\* the audio section of an answer: num payload types on its m= line, and
\* the format of the first rtpmap
Answer(num, format) == [num |-> num, format |-> format]

NoAnswer == Answer(0, NoFormat)

Answers == {Answer(1, "PCMU"), Answer(1, "PCMA"), Answer(2, "PCMU")}

SipMessage(code) ==
  [code |-> code, method |-> "", chals |-> <<>>, to_tag |-> NULL, branch |-> 0,
   ctype |-> "", clen |-> 0, answer |-> NoAnswer]

\* the challenges of a 401: none, Digest of the configured realm with nonce
\* n, Digest of another realm, Basic before Digest
SipChallengeLists(n) ==
  {<<>>,
   <<Challenge("Digest", "params", "r1", n)>>,
   <<Challenge("Digest", "params", "r2", n)>>,
   <<Challenge("Basic", "params", "r1", ""), Challenge("Digest", "params", "r1", n)>>}

\* the responses to the INVITE of branch b; the finals carry the tag t1
InviteResponses(b) ==
  {[SipMessage(100) EXCEPT !.branch = b]}
  \cup {[SipMessage(200) EXCEPT !.branch = b, !.to_tag = <<"t1">>]}
  \cup {[SipMessage(200) EXCEPT !.branch = b, !.to_tag = <<"t1">>, !.clen = BodyLen,
                                !.ctype = "application/sdp", !.answer = a] :
          a \in Answers}
  \cup {[SipMessage(code) EXCEPT !.branch = b, !.to_tag = <<"t1">>] :
          code \in {400, 500}}
  \cup {[SipMessage(401) EXCEPT !.branch = b, !.to_tag = <<"t1">>, !.chals = c] :
          c \in SipChallengeLists("n1")}

\* the responses to a BYE, which carry a tag of their own
ByeResponses ==
  {[SipMessage(200) EXCEPT !.to_tag = <<"t2">>]}
  \cup {[SipMessage(401) EXCEPT !.to_tag = <<"t2">>, !.chals = c] :
          c \in SipChallengeLists("n2")}

\* the requests the peer makes
SipRequests ==
  {[SipMessage(0) EXCEPT !.method = m] : m \in {"BYE", "INFO", "CANCEL", "NOTIFY"}}

\* the elements of a sequence
Elems(s) == {s[i] : i \in 1..Len(s)}

\* what the speaker's socket can hold: answers to the INVITEs that reached
\* the peer while one is awaited, requests of the peer while none is
SipMessagesIn(state, invites) ==
  CASE state = SIP_STATE_INVITE ->
         UNION {InviteResponses(q.branch_id) : q \in Elems(invites)}
    [] state = SIP_STATE_NONE -> SipRequests
    [] OTHER -> {SipMessage(200)}

(***************************************************************************)
(* The cases of the switch on sip_speaker->state of main_loop.             *)
(***************************************************************************)
\* a peer tag that follows every response, dialog or not
SetPeerTagAlways(p, r) ==
  IF r.to_tag # NULL THEN [p EXCEPT !.peer_tag = r.to_tag] ELSE p

\* the tag of the To header, taken outside a dialog only
SipSetPeerTag(p, r) ==
  IF p.in_a_dialog = 0 /\ r.to_tag # NULL THEN [p EXCEPT !.peer_tag = r.to_tag] ELSE p

\* the 200 reply to a BYE or INFO of the peer, inside a dialog only; the
\* BYE ends the dialog before the reply is sent
SipSpeakerReply(c, r) ==
  IF c.sip.in_a_dialog # 0 /\ r.method \in {"BYE", "INFO"}
  THEN LET left == IF r.method = "BYE" THEN [c EXCEPT !.sip.in_a_dialog = 0] ELSE c
       IN SipSend(left, Request("SIP 200", URL, NULL, left.sip), 0)
  ELSE [m |-> c, ret |-> 1]

CaseSipOptions(c0, rc, r) ==
  LET rv == RecvResponse(c0.bufferLen, bufferSize, 0, rc, RespLen(r))
  IN IF rv.ret = 0 THEN c0 ELSE [c0 EXCEPT !.bufferLen = 0]

\* case 200 of the 2xx branch: the answer
Invite200(c, r) ==
  LET responseLen == GetResponseLen(r)
      measured == [c EXCEPT !.contentLength = r.clen]
      shifted == [measured EXCEPT !.bufferLen = @ - responseLen]
  IN IF responseLen = 0 THEN c
     ELSE IF r.ctype # "application/sdp" THEN measured
     ELSE IF shifted.bufferLen < shifted.contentLength THEN shifted
     ELSE IF r.answer.num # 1 THEN shifted
     ELSE [shifted EXCEPT !.enable_sip_tx = 1]

\* a 401 branch that retries whatever the number of INVITEs
Invite401Unbounded(c, r) ==
  IF GetAuthSchemeBasic(r.chals) = 0 THEN c
  ELSE LET dd == GetAuthSchemeDigest(r.chals)
           a == RtspPlayerDigestAuthorization(c.sip, sip_realm, dd.nonce, dd.rx_realm)
           authed == [c EXCEPT !.sip = a.p]
       IN IF dd.rc # 0 THEN c
          ELSE SipSpeakerInvite(authed, 1).m

\* case 401 of the 4xx branch; what RtspPlayerDigestAuthorization returns is
\* not looked at
Invite401(c, r) ==
  IF GetAuthSchemeBasic(r.chals) = 0 THEN c
  ELSE LET dd == GetAuthSchemeDigest(r.chals)
           a == RtspPlayerDigestAuthorization(c.sip, sip_realm, dd.nonce, dd.rx_realm)
           authed == [c EXCEPT !.sip = a.p]
       IN IF dd.rc # 0 THEN c
          ELSE IF authed.sip.cseqm.INVITE = 3 THEN authed
          ELSE SipSpeakerInvite(authed, 1).m

CaseSipInvite(c0, rc, r) ==
  LET rv == RecvResponse(0, bufferSize, 0, rc, RespLen(r))
      c == [c0 EXCEPT !.bufferLen = rv.bufferLen]
      responseCode == GetResponseCode(r, c.bufferLen)
      tagged == [c EXCEPT !.sip = SipSetPeerTag(@, r)]
      joined == [tagged EXCEPT !.sip.in_a_dialog = 1,
                               !.sip.cseqm.ACK = tagged.sip.cseqm.INVITE - 1]
      acked2 == SipSpeakerAck(joined, 2).m
      acked4 == SipSpeakerAck([tagged EXCEPT !.sip.cseqm.ACK =
                                               tagged.sip.cseqm.INVITE - 1], 4).m
      idle(x) == [x EXCEPT !.sip.state = SIP_STATE_NONE, !.bufferLen = 0]
  IN IF rv.ret = 0 THEN c
     ELSE IF responseCode >= 100 /\ responseCode <= 199 THEN [c EXCEPT !.bufferLen = 0]
     ELSE IF responseCode >= 200 /\ responseCode <= 299
          THEN idle(IF responseCode = 200 THEN Invite200(acked2, r) ELSE acked2)
     ELSE IF responseCode >= 400 /\ responseCode <= 499
          THEN IF responseCode = 401
               THEN [Invite401(acked4, r) EXCEPT !.bufferLen = 0]
               ELSE idle(acked4)
     ELSE idle(c)

CaseSipNone(c0, rc, r) ==
  LET rv == RecvResponse(0, bufferSize, 0, rc, RespLen(r))
      c == [c0 EXCEPT !.bufferLen = rv.bufferLen]
      reply == SipSpeakerReply(c, r)
  IN IF rv.ret = 0 THEN c
     ELSE IF r.method = "BYE"
          THEN [reply.m EXCEPT !.enable_sip_tx = IF reply.ret = 1 THEN 0 ELSE @,
                               !.bufferLen = 0]
     ELSE IF r.method = "INFO" THEN [reply.m EXCEPT !.bufferLen = 0]
     ELSE [c EXCEPT !.bufferLen = 0]

\* switch (sip_speaker->state) of the speaker's socket branch
SipSwitch(c, rc, r) ==
  CASE c.sip.state = SIP_STATE_OPTIONS -> CaseSipOptions(c, rc, r)
    [] c.sip.state = SIP_STATE_INVITE -> CaseSipInvite(c, rc, r)
    [] OTHER -> CaseSipNone(c, rc, r)

\* the 401 branch of the BYE at the end of the call
Bye401(c, r) ==
  LET tagged == [c EXCEPT !.sip = [SipSetPeerTag(@, r) EXCEPT
                                     !.cseqm.ACK = c.sip.cseqm.BYE - 1]]
      acked == SipSpeakerAck(tagged, 4).m
      dd == GetAuthSchemeDigest(r.chals)
      a == RtspPlayerDigestAuthorization(acked.sip, sip_realm, dd.nonce, dd.rx_realm)
  IN IF GetAuthSchemeBasic(r.chals) = 0 THEN acked
     ELSE IF dd.rc # 0 THEN acked
     ELSE SipSpeakerBye([acked EXCEPT !.sip = a.p]).m

\* a teardown that leaves the dialog flag as it finds it
SipTeardownKeepingDialog(c, rc, r) ==
  IF c.sip.in_a_dialog = 0 THEN c
  ELSE LET bye == SipSpeakerBye(c).m
           rv == RecvResponse(0, bufferSize, 0, rc, RespLen(r))
           got == [bye EXCEPT !.bufferLen = rv.bufferLen]
           responseCode == GetResponseCode(r, got.bufferLen)
       IN IF rc = "none" THEN bye
          ELSE IF rv.ret # 0 /\ responseCode = 401 THEN Bye401(got, r)
          ELSE got

\* the SIP part of rstp_play_stop: the BYE of a dialog, half a second of
\* waiting for its response (rc "none": nothing came), a 401 answered
SipTeardown(c, rc, r) ==
  IF c.sip.in_a_dialog = 0 THEN c
  ELSE LET bye == SipSpeakerBye(c).m
           rv == RecvResponse(0, bufferSize, 0, rc, RespLen(r))
           got == [bye EXCEPT !.bufferLen = rv.bufferLen]
           responseCode == GetResponseCode(r, got.bufferLen)
           done == IF rc = "none" THEN bye
                   ELSE IF rv.ret # 0 /\ responseCode = 401 THEN Bye401(got, r)
                   ELSE got
       IN [done EXCEPT !.sip.in_a_dialog = 0]

(***************************************************************************)
(* The state of main_loop.                                                 *)
(***************************************************************************)
VARIABLES
  pc,              \* where main_loop is: "start", "loop" (the while test),
                   \* "stop", "clean", "end" (the three labels), "returned",
                   \* "crashed", "garbled"
  player,          \* the RTSP player
  sip_enable,      \* the sip_enable argument
  sip_speaker,     \* the SIP speaker, NULL when sip_enable is off
  nativeformats,   \* the capability set of the channel
  bufferLen, contentLength,
  audioControl, videoControl, videoNewFormat,
  duration, tv, rtcptv,
  res,             \* the value main_loop returns
  now,             \* the clock, in ms; a timeval of 0 is the zero timeval
  owed, sipOwed,   \* messages the RTSP server and the SIP peer will still send
  audioFormat,     \* the audio format selected from the description
  enable_sip_tx,   \* voice frames of the channel go out to the SIP peer
  rnd,             \* identifiers drawn from random() so far
  invites,         \* the INVITEs that reached the peer
  open,            \* the players whose sockets are open
  sent,            \* the requests handed to send() by the last step
  sendFails,       \* send() failures so far
  call,            \* a function run on its own: its name, its arguments (in)
                   \* and what it returned (out); NoCall inside main_loop
  lastEv           \* what the last step was about: its kind, the state the
                   \* player was in, what the socket had (rc, r) and whether
                   \* r was read whole; a pass of the loop that changed nothing
                   \* but the clock is recorded as "idle"

vars == <<pc, player, sip_enable, sip_speaker, nativeformats, bufferLen,
          contentLength, audioControl, videoControl, videoNewFormat, duration,
          tv, rtcptv, res, now, owed, sipOwed, audioFormat, enable_sip_tx, rnd,
          invites, open, sent, sendFails, call, lastEv>>

NoCall == [fn |-> "", in |-> <<>>, out |-> <<>>]

Event(kind, rc, r) ==
  [kind |-> kind, state |-> player.state, rc |-> rc, r |-> r, whole |-> FALSE]

\* the objects and locals as main_loop has them on entry
Fresh ==
  /\ player = RtspPlayerCreate
  /\ sip_enable \in BOOLEAN
  /\ sip_speaker = NULL
  /\ nativeformats \in NativeFormatSets
  /\ bufferLen = 0
  /\ contentLength = 0
  /\ audioControl = NULL
  /\ videoControl = NULL
  /\ videoNewFormat = NoFormat
  /\ duration = 0
  /\ tv = 0
  /\ rtcptv = 0
  /\ res = 0
  /\ now = 1
  /\ owed = 0
  /\ sipOwed = 0
  /\ audioFormat = NoFormat
  /\ enable_sip_tx = 0
  /\ rnd = 0
  /\ invites = <<>>
  /\ open = {}
  /\ sent = <<>>
  /\ sendFails = 0
  /\ call = NoCall
  /\ lastEv = [kind |-> "none", state |-> RTSP_NONE, rc |-> "", r |-> Response(0),
               whole |-> FALSE]

Init == pc = "start" /\ Fresh

\* the requests of a step that send() refused
Failed(s) == {i \in 1..Len(s) : ~s[i].ok}

\* every send() of a step succeeds; a step makes five at most (two
\* TEARDOWNs, BYE, ACK and BYE at rstp_play_stop)
AllOk == [i \in 1..5 |-> "ok"]

\* the outcomes with k failures at most, all among the first n send() calls
RECURSIVE WithFails(_, _)
WithFails(n, k) ==
  IF n = 0 \/ k <= 0 THEN {AllOk}
  ELSE WithFails(n - 1, k)
       \cup {[o EXCEPT ![n] = f] : o \in WithFails(n - 1, k - 1),
                                  f \in SendOutcomes \ {"ok"}}

\* the outcomes of the send() calls of a step that makes n of them when
\* none fails
OutsFor(n) == WithFails(n, MaxSendFail - sendFails)

\* the machine and the locals at the start of a step, the clock read at t
Cur(outs, t) ==
  [p |-> player, sip |-> sip_speaker, sip_enable |-> sip_enable,
   sent |-> <<>>, outs |-> outs, owed |-> owed, sipOwed |-> sipOwed,
   bufferLen |-> bufferLen, contentLength |-> contentLength,
   audioControl |-> audioControl, videoControl |-> videoControl,
   videoNewFormat |-> videoNewFormat, duration |-> duration, tv |-> tv,
   rtcptv |-> rtcptv, now |-> t, audioFormat |-> audioFormat,
   enable_sip_tx |-> enable_sip_tx, rnd |-> rnd, invites |-> invites]

\* what a step leaves behind
Store(c) ==
  /\ player' = c.p
  /\ sip_speaker' = c.sip
  /\ bufferLen' = c.bufferLen
  /\ contentLength' = c.contentLength
  /\ audioControl' = c.audioControl
  /\ videoControl' = c.videoControl
  /\ videoNewFormat' = c.videoNewFormat
  /\ duration' = c.duration
  /\ tv' = c.tv
  /\ rtcptv' = c.rtcptv
  /\ now' = c.now
  /\ owed' = c.owed
  /\ sipOwed' = c.sipOwed
  /\ audioFormat' = c.audioFormat
  /\ enable_sip_tx' = c.enable_sip_tx
  /\ rnd' = c.rnd
  /\ invites' = c.invites
  /\ sent' = c.sent
  /\ sendFails' = sendFails + Cardinality(Failed(c.sent))
  /\ sendFails' <= MaxSendFail
  /\ UNCHANGED <<sip_enable, nativeformats, call>>

\* a pass that stays in the loop and changes nothing but the clock
Quiet(x) ==
  /\ x.pc = pc
  /\ [x.c EXCEPT !.now = now, !.outs = AllOk] = Cur(AllOk, now)

\* a step: F(outs) is the machine it leaves and the place it goes to, given
\* the outcomes of its send() calls
Step(F(_), ev) ==
  \E outs \in OutsFor(Len(F(AllOk).c.sent)) :
    /\ Store(F(outs).c)
    /\ pc' = F(outs).pc
    /\ lastEv' = IF Quiet(F(outs)) THEN Event("idle", "", Response(0)) ELSE ev

(***************************************************************************)
(* main_loop up to the while loop.                                         *)
(***************************************************************************)
\* socket() and the UDP ports are opened before connect() is tried
RtspPlayerConnect(socks, who) == socks \cup {who}

RtspPlayerClose(socks, who) == socks \ {who}

Start ==
  /\ pc = "start"
  /\ \E connected \in BOOLEAN, sipConnected \in BOOLEAN :
       LET F(outs) ==
             LET c0 == [Cur(outs, now) EXCEPT
                          !.sip = IF sip_enable THEN RtspPlayerCreate ELSE NULL]
                 d == RtspPlayerDescribe(c0, URL)
                 o == SipSpeakerOptions(d.m)
             IN IF ~connected \/ (sip_enable /\ ~sipConnected)
                THEN [c |-> c0, pc |-> "clean"]
                ELSE IF d.ret = 0 THEN [c |-> d.m, pc |-> "end"]
                ELSE IF ~sip_enable THEN [c |-> d.m, pc |-> "loop"]
                ELSE IF o.ret = 0 THEN [c |-> o.m, pc |-> "end"]
                ELSE [c |-> o.m, pc |-> "loop"]
       IN /\ Step(F, Event("start", "", Response(0)))
          /\ open' = IF sip_enable /\ connected
                     THEN RtspPlayerConnect(RtspPlayerConnect(open, "player"), "sip_speaker")
                     ELSE RtspPlayerConnect(open, "player")
  /\ UNCHANGED res

(***************************************************************************)
(* One pass of the while loop.                                             *)
(***************************************************************************)
\* elapsed >= duration at the top of the loop, the playback timer running
Expired == tv # 0 /\ now - tv >= duration

\* the timeout handed to ast_waitfor_nandfds
WaitMs == IF tv # 0 THEN duration - (now - tv) ELSE IdleTimeoutMs

\* how long after the top of the loop something can become ready: at once,
\* or, while the playback timer runs, half an idle timeout later
Delays == IF tv # 0 THEN {0, TimeStep} ELSE {0}

\* ready before the wait times out
Ready(dt) ==
  /\ pc = "loop"
  /\ ~Expired
  /\ dt \in Delays
  /\ dt < WaitMs
  /\ now + dt <= MaxTime

\* the rest of the pass once its branch is done: the keep-alive block, then
\* the while test
EndOfPass(c) ==
  LET k == KeepAlive(c)
  IN [c |-> k, pc |-> IF k.p.end # 0 THEN "stop" ELSE "loop"]

\* a break, or the goto, out of the while loop
LeaveLoop(c) == [c |-> c, pc |-> "stop"]

PlaybackFinished ==
  /\ pc = "loop"
  /\ Expired
  /\ LET F(outs) == LeaveLoop(SetEnd(Cur(outs, now))) IN Step(F, Event("finished", "", Response(0)))
  /\ UNCHANGED <<res, open>>

\* what ast_read returns: nothing, a hangup control frame, a DTMF frame whose
\* digit is an extension, a voice frame
Frames == {"null", "hangup", "dtmf_exten", "voice"}

\* the digit of that DTMF frame
Digit == 35

\* a voice frame goes out whenever SIP is enabled, answer or no answer
VoiceFrameUngated(c) ==
  IF c.sip_enable
  THEN SipSend(c, Request("SIP RTP", URL, NULL, c.sip), 0).m
  ELSE c

\* a voice frame goes out to the SIP peer as an RTP packet once
\* enable_sip_tx is set; a send() that fails is counted, no more
VoiceFrame(c) ==
  IF c.sip_enable /\ c.enable_sip_tx # 0
  THEN SipSend(c, Request("SIP RTP", URL, NULL, c.sip), 0).m
  ELSE c

ChannelFrame ==
  \E dt \in Delays, f \in Frames :
    /\ Ready(dt)
    /\ LET F(outs) ==
             LET c == Cur(outs, now + dt)
             IN CASE f = "null" -> LeaveLoop(c)
                  [] f = "hangup" -> EndOfPass(SetEnd(c))
                  [] f = "dtmf_exten" -> LeaveLoop(c)
                  [] OTHER -> EndOfPass(VoiceFrame(c))
       IN Step(F, Event("frame", f, Response(0)))
    /\ res' = IF f = "dtmf_exten" THEN Digit ELSE res
    /\ UNCHANGED open

RecvOutcomes == {"data", "closed", "eagain", "error"}

\* what recv() on a UDP socket can have
DatagramOutcomes == {"data", "eagain", "error"}

\* the server sends media once it has a PLAY
Streaming == player.state >= RTSP_PLAY

\* bytes RecvResponse would take of r
Taken(r) ==
  IF RespLen(r) < bufferSize - bufferLen THEN RespLen(r) ELSE bufferSize - bufferLen

\* the control socket of the player is readable
RtspControlReadable ==
  \E dt \in Delays, rc \in RecvOutcomes :
    \E r \in IF rc = "data" THEN ResponsesIn(player) ELSE {Response(0)} :
      /\ Ready(dt)
      /\ rc = "data" => owed > 0
      /\ LET got == rc = "data" /\ Taken(r) > 0
             whole == rc = "data" /\ Taken(r) = RespLen(r)
             partial == rc = "data" /\ 0 < Taken(r) /\ Taken(r) < RespLen(r)
             F(outs) ==
               LET c == Cur(outs, now + dt)
                   answered == [c EXCEPT !.owed = IF got THEN @ - 1 ELSE @]
               IN IF ~partial \/ player.state = RTSP_PLAYING
                  THEN EndOfPass(ControlSwitch(answered, rc, r, nativeformats))
                  ELSE \* the parser is handed the head of r and stale bytes
                       [c |-> [answered EXCEPT !.bufferLen = bufferSize],
                        pc |-> "garbled"]
         IN /\ Step(F, [Event("control", rc, r) EXCEPT !.whole = whole])
      /\ UNCHANGED <<res, open>>

\* an RTP socket of the player is readable: len bytes of datagram
RtpReadable ==
  \E dt \in Delays, rc \in DatagramOutcomes, len \in {RtpHeaderLen - 1, RtpHeaderLen} :
    /\ Ready(dt)
    /\ Streaming
    /\ LET F(outs) ==
             LET c == Cur(outs, now + dt)
                 rv == RecvResponse(0, PKT_PAYLOAD, c.p.end, rc, len)
                 rtpLen == rv.bufferLen
             IN IF rv.ret = 0 THEN LeaveLoop([c EXCEPT !.p.end = rv.end])
                ELSE IF rtpLen < RtpHeaderLen THEN LeaveLoop(c)
                ELSE EndOfPass(c)
       IN Step(F, Event("rtp", rc, Response(0)))
    /\ UNCHANGED <<res, open>>

\* an RTCP socket of the player is readable
RtcpReadable ==
  \E dt \in Delays, rc \in DatagramOutcomes, pt \in {"SR", "BYE"} :
    /\ Ready(dt)
    /\ Streaming
    /\ LET F(outs) ==
             LET c == Cur(outs, now + dt)
                 rv == RecvResponse(0, PKT_PAYLOAD, c.p.end, rc, PKT_PAYLOAD)
             IN IF rv.ret = 0 THEN LeaveLoop([c EXCEPT !.p.end = rv.end])
                ELSE IF pt = "BYE" THEN EndOfPass(SetEnd(c))
                ELSE EndOfPass(c)
       IN Step(F, Event("rtcp", IF rc = "data" THEN pt ELSE rc, Response(0)))
    /\ UNCHANGED <<res, open>>

\* the socket of the SIP speaker is readable; the message goes through the
\* buffer of main_loop, with a scratch end flag
SipControlReadable ==
  \E dt \in Delays, rc \in RecvOutcomes :
    \E r \in IF rc = "data" /\ sip_enable /\ pc = "loop"
              THEN SipMessagesIn(sip_speaker.state, invites) ELSE {SipMessage(0)} :
      /\ Ready(dt)
      /\ sip_enable
      /\ rc = "data" => sipOwed > 0
      /\ LET F(outs) ==
               LET c == Cur(outs, now + dt)
                   counted == IF rc = "data" THEN [c EXCEPT !.sipOwed = @ - 1] ELSE c
               IN EndOfPass(SipSwitch(counted, rc, r))
         IN Step(F, Event("sip", rc, r))
      /\ UNCHANGED <<res, open>>

\* nothing became ready within the timeout.  With the speaker disabled the
\* comparison outfd==sip_speaker->fd reads through a null pointer: the
\* process dies there, or the read yields some value that is not -1.
WaitTimeout ==
  \E deref \in IF sip_enable THEN {"valid"} ELSE {"fault", "garbage"} :
    /\ pc = "loop"
    /\ ~Expired
    /\ now + WaitMs <= MaxTime
    /\ LET F(outs) ==
             LET c == Cur(outs, now + WaitMs)
             IN IF deref = "fault" THEN [c |-> c, pc |-> "crashed"]
                ELSE IF c.p.state # RTSP_PLAYING THEN EndOfPass(SetEnd(c))
                ELSE EndOfPass(c)
       IN Step(F, Event("timeout", deref, Response(0)))
    /\ UNCHANGED <<res, open>>

(***************************************************************************)
(* After the loop.                                                         *)
(***************************************************************************)
\* what the wait for the response to the BYE ends with: nothing to read,
\* a response, a recv() that fails
ByeOutcomes == {"none", "data", "error"}

\* rstp_play_stop:
Stop ==
  \E rc \in ByeOutcomes :
    \E r \in IF rc = "data" THEN ByeResponses ELSE {SipMessage(0)} :
      /\ pc = "stop"
      /\ rc # "none" => sip_enable /\ sip_speaker.in_a_dialog # 0
      /\ LET F(outs) ==
               LET c == Cur(outs, now)
                   t == IF c.p.state > RTSP_DESCRIBE THEN RtspPlayerTeardown(c).m ELSE c
               IN IF sip_enable
                  THEN [c |-> SipTeardown(t, rc, r), pc |-> "clean"]
                  ELSE [c |-> t, pc |-> "clean"]
         IN Step(F, [Event("stop", rc, r) EXCEPT !.whole = (rc = "data")])
      /\ UNCHANGED <<res, open>>

\* rtsp_play_clean: and on through rtsp_play_end: to the return
Clean ==
  /\ pc = "clean"
  /\ open' = IF sip_enable
             THEN RtspPlayerClose(RtspPlayerClose(open, "player"), "sip_speaker")
             ELSE RtspPlayerClose(open, "player")
  /\ LET F(outs) == [c |-> Cur(outs, now), pc |-> "returned"] IN Step(F, Event("clean", "", Response(0)))
  /\ UNCHANGED res

\* rtsp_play_end: entered by goto
End ==
  /\ pc = "end"
  /\ LET F(outs) == [c |-> Cur(outs, now), pc |-> "returned"] IN Step(F, Event("end", "", Response(0)))
  /\ UNCHANGED <<res, open>>

Next ==
  \/ Start
  \/ PlaybackFinished
  \/ ChannelFrame
  \/ RtspControlReadable
  \/ RtpReadable
  \/ RtcpReadable
  \/ SipControlReadable
  \/ WaitTimeout
  \/ Stop
  \/ Clean
  \/ End

Spec == Init /\ [][Next]_vars

(***************************************************************************)
(* RtspPlayerAddSession on its own: any Session value, any number of       *)
(* times, on a fresh player.                                               *)
(***************************************************************************)
InitSess == pc = "addsession" /\ Fresh

AddSession ==
  /\ pc = "addsession"
  /\ \E s \in SessionValues :
       /\ player' = RtspPlayerAddSession(player, s)
       /\ lastEv' = Event("addsession", "", [Response(200) EXCEPT !.session = s])
  /\ UNCHANGED <<pc, sip_enable, sip_speaker, nativeformats, bufferLen,
                 contentLength, audioControl, videoControl, videoNewFormat,
                 duration, tv, rtcptv, res, now, owed, sipOwed, audioFormat,
                 enable_sip_tx, rnd, invites, open, sent, sendFails, call>>

NextSess == AddSession

SpecSess == InitSess /\ [][NextSess]_vars

(***************************************************************************)
(* The loop from the audio SETUP on.  main_loop as compiled selects no     *)
(* audio (the selection stands under if (0)), so Spec never enters case    *)
(* RTSP_SETUP_AUDIO, and with it never sends an INVITE.  SpecAudio starts  *)
(* the loop where the DESCRIBE case leaves it once an audio format has     *)
(* been selected: the audio SETUP is out (cseq 3 follows DESCRIBE and      *)
(* SETUP), the speaker has sent its OPTIONS and has the answer.            *)
(***************************************************************************)
\* audioFormat as the selection leaves it: the best native format of the
\* description, which need not be one SipSpeakerInvite can offer
AudioFormats == {"PCMU", "GSM"}

\* the video selection: nothing, or a format with its control
VideoSelections == {[control |-> NULL, format |-> NoFormat],
                    [control |-> <<"v1">>, format |-> "H264"]}

InitAudio ==
  /\ pc = "loop"
  /\ player = [RtspPlayerCreate EXCEPT !.state = RTSP_SETUP_AUDIO, !.cseq = 3,
                                       !.url = URL]
  /\ sip_enable \in BOOLEAN
  /\ sip_speaker = IF sip_enable
                   THEN [RtspPlayerCreate EXCEPT !.state = SIP_STATE_OPTIONS,
                                                 !.cseqm.OPTIONS = 2,
                                                 !.src_tag = 1, !.call_id = 2,
                                                 !.branch_id = 3]
                   ELSE NULL
  /\ rnd = IF sip_enable THEN 3 ELSE 0
  /\ audioFormat \in AudioFormats
  /\ nativeformats = {audioFormat, "H264"}
  /\ bufferLen = 0
  /\ contentLength = 0
  /\ audioControl = <<"a1">>
  /\ \E v \in VideoSelections : videoControl = v.control /\ videoNewFormat = v.format
  /\ duration = 0
  /\ tv = 0
  /\ rtcptv = 0
  /\ res = 0
  /\ now = 1
  /\ owed = 1
  /\ sipOwed = 0
  /\ enable_sip_tx = 0
  /\ invites = <<>>
  /\ open = IF sip_enable THEN {"player", "sip_speaker"} ELSE {"player"}
  /\ sent = <<>>
  /\ sendFails = 0
  /\ call = NoCall
  /\ lastEv = [kind |-> "none", state |-> RTSP_DESCRIBE, rc |-> "", r |-> Response(0),
               whole |-> FALSE]

\* the passes that reach the SETUP cases, the speaker and the end of the
\* call; media and timeouts, which touch neither, are left out
NextAudio ==
  \/ ChannelFrame
  \/ RtspControlReadable
  \/ SipControlReadable
  \/ Stop
  \/ Clean

SpecAudio == InitAudio /\ [][NextAudio]_vars

(***************************************************************************)
(* Properties.                                                             *)
(***************************************************************************)
\* the last step read a whole response r from the control socket while the
\* player was in state s
Processed(ev, s) ==
  /\ ev.kind = "control"
  /\ ev.state = s
  /\ ev.whole

\* r carries a challenge of this scheme
Offers(r, scheme) == \E i \in 1..Len(r.chals) : r.chals[i].scheme = scheme

\* the requests of these methods among s
Sent(s, methods) == SelectSeq(s, LAMBDA q : q.method \in methods)

\* exactly one DESCRIBE went to send(), carrying the player's Authorization,
\* which is of this scheme
ResentWith(scheme) ==
  /\ Len(sent') = 1
  /\ sent'[1].method = "DESCRIBE"
  /\ sent'[1].authorization = player'.authorization
  /\ player'.authorization.scheme = scheme

Success(r) == r.code >= 200 /\ r.code <= 299

\* the audio formats of r the channel can take, with their control URLs
UsableAudio(r, native) ==
  {r.sdp.audio[i] : i \in {j \in 1..Len(r.sdp.audio) :
                             /\ r.sdp.audio[j].format \in native
                             /\ r.sdp.audio[j].control # NULL}}

\* C2: a successful DESCRIBE response whose session description has an audio
\* format the channel can take is answered with a SETUP for the control URL
\* of that audio section, and once that SETUP is out the state is
\* SETUP_AUDIO, whatever video the description offers.
C2_AudioSetup ==
  [][/\ Processed(lastEv', RTSP_DESCRIBE)
     /\ Success(lastEv'.r)
     /\ lastEv'.r.ctype = "application/sdp"
     /\ UsableAudio(lastEv'.r, nativeformats) # {}
     => \E i \in 1..Len(sent') :
          /\ sent'[i].method = "SETUP"
          /\ \E a \in UsableAudio(lastEv'.r, nativeformats) : sent'[i].url = a.control
          /\ sent'[i].ok => player'.state = RTSP_SETUP_AUDIO]_vars

\* C3: in DESCRIBE, SETUP_AUDIO, SETUP_VIDEO and PLAY a whole response whose
\* status is not 2xx (a 401 in DESCRIBE aside) sets the end flag, leaves the
\* state where it is and is followed by no SETUP and no PLAY; and PLAYING is
\* entered only on a 2xx response processed in PLAY.
C3_NonSuccessEnds ==
  /\ [][/\ \E s \in {RTSP_DESCRIBE, RTSP_SETUP_AUDIO, RTSP_SETUP_VIDEO, RTSP_PLAY} :
             Processed(lastEv', s)
        /\ ~Success(lastEv'.r)
        /\ ~(lastEv'.state = RTSP_DESCRIBE /\ lastEv'.r.code = 401)
        => /\ player'.end = 1
           /\ player'.state = player.state
           /\ Sent(sent', {"SETUP", "PLAY"}) = <<>>]_vars
  /\ [][player'.state = RTSP_PLAYING /\ player.state # RTSP_PLAYING
        => Processed(lastEv', RTSP_PLAY) /\ Success(lastEv'.r)]_vars

\* C4: the step at rstp_play_stop sends one TEARDOWN per bound session, in
\* order and up to the first send that fails, when the state is past
\* DESCRIBE, and none otherwise; no socket is closed in that step and the
\* player's is still open; no other step sends a TEARDOWN, so that none
\* follows a close and a failed one is not tried again.
C4_Teardown ==
  /\ [][pc = "stop"
        => LET td == Sent(sent', {"TEARDOWN"})
           IN /\ open' = open
              /\ "player" \in open
              /\ IF player.state > RTSP_DESCRIBE
                 THEN /\ Len(td) <= player.numSessions
                      /\ \A i \in 1..Len(td) : td[i].session = player.session[i]
                      /\ \A i \in 1..player.numSessions :
                           (\A j \in 1..(i - 1) : j <= Len(td) /\ td[j].ok) => i <= Len(td)
                 ELSE td = <<>>]_vars
  /\ [][pc # "stop" => Sent(sent', {"TEARDOWN"}) = <<>>]_vars

\* a TEARDOWN that send() refused, and the function on its way out
C4_Witness ==
  /\ pc = "clean"
  /\ lastEv.kind = "stop"
  /\ player.state = RTSP_PLAYING
  /\ player.numSessions = 1
  /\ Len(Sent(sent, {"TEARDOWN"})) = 1
  /\ ~Sent(sent, {"TEARDOWN"})[1].ok

\* C5: no step lowers the state; PLAYING is entered from PLAY only and
\* RELEASED by the teardown at rstp_play_stop only; and a DESCRIBE, SETUP or
\* PLAY goes out with the state left as it was only when it is the DESCRIBE
\* that answers a 401 in DESCRIBE.
C5_StateMonotone ==
  [][/\ player'.state >= player.state
     /\ player'.state = RTSP_PLAYING /\ player.state # RTSP_PLAYING
        => player.state = RTSP_PLAY
     /\ player'.state = RTSP_RELEASED /\ player.state # RTSP_RELEASED
        => pc = "stop" /\ Sent(sent', {"TEARDOWN"}) # <<>>
     /\ \A i \in 1..Len(sent') :
          /\ sent'[i].ok
          /\ sent'[i].method \in {"DESCRIBE", "SETUP", "PLAY"}
          /\ player'.state = player.state
          => /\ sent'[i].method = "DESCRIBE"
             /\ Processed(lastEv', RTSP_DESCRIBE)
             /\ lastEv'.r.code = 401]_vars

\* a run through every state, with a 401 on the way
C5_Witness ==
  /\ pc = "returned"
  /\ player.state = RTSP_RELEASED
  /\ player.authorization.scheme = "Digest"
  /\ duration > 0

\* C6: while PLAYING the end flag is raised only by the expiry of the
\* duration, an RTCP BYE, a hangup frame or a receive that failed or found
\* the socket closed; data on the control socket leaves the state PLAYING
\* and the end flag as it was, however many keep-alives went before.
C6_PlayingEnds ==
  /\ [][player.state = RTSP_PLAYING /\ player.end = 0 /\ player'.end # 0
        => \/ lastEv'.kind = "finished"
           \/ lastEv'.kind = "rtcp" /\ lastEv'.rc = "BYE"
           \/ lastEv'.kind = "frame" /\ lastEv'.rc = "hangup"
           \/ /\ lastEv'.kind \in {"control", "rtp", "rtcp"}
              /\ lastEv'.rc \in {"closed", "error"}]_vars
  /\ [][lastEv'.kind = "control" /\ lastEv'.rc = "data" /\ lastEv'.state = RTSP_PLAYING
        => player'.state = RTSP_PLAYING /\ player'.end = player.end]_vars

\* C7: a response processed in PLAY makes the state PLAYING; when its Range
\* has an end time above 0 the duration is that time in ms and the timer is
\* started, otherwise no timer runs; and a pass of the loop that starts with
\* the timer run out sets the end flag and leaves the loop.
C7_PlayDuration ==
  /\ [][Processed(lastEv', RTSP_PLAY)
        => /\ player'.state = RTSP_PLAYING
           /\ IF /\ lastEv'.r.range.present
                 /\ lastEv'.r.range.dash
                 /\ lastEv'.r.range.usec > 0
              THEN duration' * 1000 = lastEv'.r.range.usec /\ tv' = now'
              ELSE tv' = 0]_vars
  /\ [][pc = "loop" /\ Expired => pc' = "stop" /\ player'.end = 1]_vars
  /\ [](tv = 0 => ~Expired)

\* the description offers nothing the channel can take
NothingUsable(r, native) ==
  /\ \A i \in 1..Len(r.sdp.audio) : r.sdp.audio[i].format \notin native
  /\ \A i \in 1..Len(r.sdp.video) : r.sdp.video[i].format \notin native

\* C8: a successful DESCRIBE response whose session description offers no
\* audio and no video format the channel can take sets the end flag with
\* the state still DESCRIBE and sends nothing; the loop is left at its next
\* test, and the teardown step of a player still in DESCRIBE sends no
\* TEARDOWN.
C8_NothingSelected ==
  /\ [][/\ Processed(lastEv', RTSP_DESCRIBE)
        /\ Success(lastEv'.r)
        /\ lastEv'.r.ctype = "application/sdp"
        /\ NothingUsable(lastEv'.r, nativeformats)
        => /\ player'.end = 1
           /\ player'.state = RTSP_DESCRIBE
           /\ sent' = <<>>
           /\ pc' = "stop"]_vars
  /\ [][pc = "stop" /\ player.state = RTSP_DESCRIBE
        => sent' = <<>> /\ player'.state = RTSP_DESCRIBE]_vars

\* a description with video only, none of it for this channel
C8_Witness ==
  /\ pc = "stop"
  /\ Processed(lastEv, RTSP_DESCRIBE)
  /\ Success(lastEv.r)
  /\ lastEv.r.sdp.audio = <<>>
  /\ Len(lastEv.r.sdp.video) = 2
  /\ NothingUsable(lastEv.r, nativeformats)
  /\ player.end = 1

\* the response is one the player gives up on
Unusable(ev) ==
  \/ /\ Processed(ev, RTSP_DESCRIBE)
     /\ Success(ev.r)
     /\ ev.r.ctype # "application/sdp"
  \/ /\ Processed(ev, RTSP_SETUP_AUDIO) \/ Processed(ev, RTSP_SETUP_VIDEO)
     /\ ev.r.session = NULL \/ ~ev.r.transport

Bound(p) == {p.session[i] : i \in 1..Len(p.session)}

\* at most two identifiers, none with parameters, no two equal
SessionsDistinct(p) ==
  /\ p.numSessions <= 2
  /\ Len(p.session) = p.numSessions
  /\ \A i \in 1..Len(p.session) : FirstSemi(p.session[i]) = 0
  /\ \A i, j \in 1..Len(p.session) : p.session[i] = p.session[j] => i = j

\* C10: the player never holds more than two session identifiers nor two
\* equal ones (parameters after ';' removed), and an identifier equal to a
\* bound one, or a third identifier, leaves the identifiers and their count
\* as they were.
C10_SessionsBounded ==
  /\ [](SessionsDistinct(player))
  /\ [][lastEv'.kind = "addsession"
        /\ (player.numSessions = 2 \/ StripParams(lastEv'.r.session) \in Bound(player))
        => player'.session = player.session
           /\ player'.numSessions = player.numSessions]_vars

\* two identifiers are bound and a third, different one was just offered
C10_Witness ==
  /\ lastEv.kind = "addsession"
  /\ player.numSessions = 2
  /\ FirstSemi(lastEv.r.session) > 0
  /\ StripParams(lastEv.r.session) \notin Bound(player)

(***************************************************************************)
(* Properties of the loop from the audio SETUP on (SpecAudio).             *)
(***************************************************************************)
\* the checks of the two SETUP cases pass: no body, a Session, a Transport
Accepted(r) == r.clen = 0 /\ r.session # NULL /\ r.transport

\* the RTSP requests among s
RtspSent(s) == Sent(s, {"OPTIONS", "DESCRIBE", "SETUP", "PLAY", "TEARDOWN"})

\* s is one PLAY per bound session of p, in their order, up to the first
\* that send() refuses
PlayPerSession(s, p) ==
  /\ Len(s) >= 1
  /\ Len(s) <= p.numSessions
  /\ \A i \in 1..Len(s) :
       /\ s[i].method = "PLAY"
       /\ s[i].session = p.session[i]
       /\ s[i].ok \/ i = Len(s)
  /\ s[Len(s)].ok => Len(s) = p.numSessions

Invites(s) == Sent(s, {"SIP INVITE"})

\* the last step answered a 401 to INVITE
Retrying(ev) == ev.kind = "sip" /\ ev.rc = "data" /\ ev.r.code = 401

InviteAnswered(ev, sip, lo, hi) ==
  /\ ev.kind = "sip"
  /\ ev.rc = "data"
  /\ sip.state = SIP_STATE_INVITE
  /\ ev.r.code >= lo
  /\ ev.r.code <= hi

\* the ACKs among s
Acks(s) == Sent(s, {"SIP ACK"})

InDialog == sip_enable /\ sip_speaker.in_a_dialog # 0

\* the requests among s the speaker builds from its own tags and Call-ID
SpeakerRequests(s) == Sent(s, {"SIP OPTIONS", "SIP INVITE", "SIP ACK", "SIP BYE"})

UsableDigest(r) ==
  /\ ~Offers(r, "Basic")
  /\ \E i \in 1..Len(r.chals) :
       /\ r.chals[i].scheme = "Digest"
       /\ r.chals[i].realm = sip_realm

DigestOf(r) ==
  r.chals[CHOOSE i \in 1..Len(r.chals) :
            /\ r.chals[i].scheme = "Digest"
            /\ \A j \in (i + 1)..Len(r.chals) : r.chals[j].scheme # "Digest"]

\* r is a 401 whose Digest challenge is for another realm than sip_realm
OtherRealm(r) ==
  /\ r.code = 401
  /\ ~Offers(r, "Basic")
  /\ Offers(r, "Digest")
  /\ DigestOf(r).realm # sip_realm

\* the Authorization computed from the Digest challenge of r
AuthorizationFor(r) ==
  [scheme |-> "Digest", realm |-> DigestOf(r).realm, nonce |-> DigestOf(r).nonce]

\* the BYEs among s
Byes(s) == Sent(s, {"SIP BYE"})

\* the last step was rstp_play_stop and read a 401 to its BYE
Bye401Read(ev) == ev.kind = "stop" /\ ev.rc = "data" /\ ev.r.code = 401

AnswerMatches(r, offered) ==
  /\ r.ctype = "application/sdp"
  /\ r.answer.num = 1
  /\ r.answer.format = offered

PeerBye(ev, sip) ==
  /\ ev.kind = "sip"
  /\ ev.rc = "data"
  /\ sip.state = SIP_STATE_NONE
  /\ ev.r.method = "BYE"

Others == <<player, sip_enable, sip_speaker, nativeformats, bufferLen,
            contentLength, audioControl, videoControl, videoNewFormat, duration,
            tv, rtcptv, res, now, owed, sipOwed, audioFormat, enable_sip_tx, rnd,
            invites, open, sent, sendFails, lastEv>>

Parked ==
  /\ player = RtspPlayerCreate
  /\ sip_enable = FALSE
  /\ sip_speaker = NULL
  /\ nativeformats = {}
  /\ bufferLen = 0
  /\ contentLength = 0
  /\ audioControl = NULL
  /\ videoControl = NULL
  /\ videoNewFormat = NoFormat
  /\ duration = 0
  /\ tv = 0
  /\ rtcptv = 0
  /\ res = 0
  /\ now = 1
  /\ owed = 0
  /\ sipOwed = 0
  /\ audioFormat = NoFormat
  /\ enable_sip_tx = 0
  /\ rnd = 0
  /\ invites = <<>>
  /\ open = {}
  /\ sent = <<>>
  /\ sendFails = 0
  /\ lastEv = [kind |-> "none", state |-> RTSP_NONE, rc |-> "", r |-> Response(0),
               whole |-> FALSE]

\* the function fn is about to run on one of the arguments
Calling(fn, arguments) ==
  /\ pc = "call"
  /\ Parked
  /\ call \in {[fn |-> fn, in |-> a, out |-> <<>>] : a \in arguments}

\* fn has run and returned out
Returned(fn, out) ==
  /\ pc = "call"
  /\ call.fn = fn
  /\ call' = [call EXCEPT !.out = out]
  /\ pc' = "done"
  /\ UNCHANGED Others

(***************************************************************************)
(* CheckAuthScheme on the text of the WWW-Authenticate header values.      *)
(***************************************************************************)
\* letters and digits
Words == {"Basic", "Digest", "Bearer", "realm", "nonce", "r1", "r2", "n1", "tok",
          "None", "Token68"}

\* the white space of the messages: isspace() holds of these
Spaces == {" ", "\t", "\r", "\n"}

isspace(c) == c \in Spaces

isalnum(c) == c \in Words

\* the first place from p on where str has a character of stops, the place
\* of the terminating 0 when there is none
Find(str, p, stops) ==
  CHOOSE i \in p..(Len(str) + 1) :
    /\ i = Len(str) + 1 \/ str[i] \in stops
    /\ \A j \in p..(i - 1) : str[j] \notin stops

\* the first place from p on where str has no character of skips
Span(str, p, skips) ==
  CHOOSE i \in p..(Len(str) + 1) :
    /\ i = Len(str) + 1 \/ str[i] \notin skips
    /\ \A j \in p..(i - 1) : str[j] \in skips

\* the text of str from place p on
From(str, p) == SubSeq(str, p, Len(str))

\* the scheme is what stands before the first white space, rest what stands
\* after the white space
parse_auth_scheme(input) ==
  LET i == Find(input, 1, Spaces)
  IN [scheme |-> SubSeq(input, 1, i - 1),
      rest |-> From(input, Span(input, i, Spaces))]

is_token68(str) ==
  \A i \in 1..Len(str) : isalnum(str[i]) \/ str[i] \in {"+", "/", "="}

\* the while loop of parse_auth_params from place p on, with the keys and
\* values found so far; more_auths is NULL or the text a key without '='
\* starts
RECURSIVE AuthParamsFrom(_, _, _, _)
AuthParamsFrom(str, p, key, val) ==
  IF p > Len(str)
  THEN [key |-> key, val |-> val, count |-> Len(key), more_auths |-> NULL]
  ELSE LET k == Span(str, p, Spaces \cup {","})
           kEnd == Find(str, k, {"=", " "})
       IN IF kEnd > Len(str) \/ str[kEnd] # "="
          THEN [key |-> key, val |-> val, count |-> Len(key),
                more_auths |-> From(str, k)]
          ELSE LET v == kEnd + 1
                   quoted == v <= Len(str) /\ str[v] = "\""
                   vEnd == IF quoted THEN Find(str, v + 1, {"\""})
                                     ELSE Find(str, v, {","})
                   value == IF quoted THEN SubSeq(str, v + 1, vEnd - 1)
                                      ELSE SubSeq(str, v, vEnd - 1)
                   next == IF quoted /\ vEnd <= Len(str) THEN vEnd + 1 ELSE vEnd
               IN AuthParamsFrom(str, next, Append(key, SubSeq(str, k, kEnd - 1)),
                                 Append(val, value))

parse_auth_params(str) == AuthParamsFrom(str, 1, <<>>, <<>>)

\* the array old with its first Len(new) entries overwritten
Put(old, new) ==
  [j \in 1..(IF Len(old) > Len(new) THEN Len(old) ELSE Len(new)) |->
     IF j <= Len(new) THEN new[j] ELSE old[j]]

\* what CheckAuthScheme has before the first header: the arrays and the
\* count of the caller are not initialised, which -1 stands for
NoScheme == [rc |-> -10, key |-> <<>>, val |-> <<>>, count |-> -1]

\* the do/while of CheckAuthScheme over one header value from auth_start on
RECURSIVE CheckAuthValue(_, _, _)
CheckAuthValue(acc, auth_start, scheme_to_match) ==
  LET parsed == parse_auth_scheme(auth_start)
      rc == IF parsed.scheme = scheme_to_match THEN 0 ELSE acc.rc
      params == parse_auth_params(parsed.rest)
  IN IF parsed.rest = <<>>
     THEN [rc |-> rc, key |-> Put(acc.key, <<<<"None">>>>),
           val |-> Put(acc.val, <<<<"None">>>>), count |-> 1]
     ELSE IF is_token68(parsed.rest)
     THEN [rc |-> rc, key |-> Put(acc.key, <<<<"Token68">>>>),
           val |-> Put(acc.val, <<parsed.rest>>), count |-> 1]
     ELSE LET kept == IF rc = 0 /\ params.count > 0
                      THEN [rc |-> rc, key |-> Put(acc.key, params.key),
                            val |-> Put(acc.val, params.val), count |-> params.count]
                      ELSE [acc EXCEPT !.rc = rc]
          IN IF params.more_auths # NULL
             THEN CheckAuthValue(kept, params.more_auths, scheme_to_match)
             ELSE kept

\* the for loop of CheckAuthScheme over the values of the WWW-Authenticate
\* headers of a message, from header i on
RECURSIVE CheckAuthHeaders(_, _, _, _)
CheckAuthHeaders(acc, values, i, scheme_to_match) ==
  IF i > Len(values) THEN acc
  ELSE CheckAuthHeaders(CheckAuthValue(acc, values[i], scheme_to_match), values,
                        i + 1, scheme_to_match)

\* CheckAuthScheme of a message whose headers parse: the return code and the
\* first count entries of the two arrays
CheckAuthSchemeText(values, scheme_to_match) ==
  LET got == CheckAuthHeaders(NoScheme, values, 1, scheme_to_match)
  IN IF got.rc = 0
     THEN [rc |-> 0, key |-> SubSeq(got.key, 1, got.count),
           val |-> SubSeq(got.val, 1, got.count), count |-> got.count]
     ELSE [rc |-> got.rc, key |-> <<>>, val |-> <<>>, count |-> 0]

\* The messages: a challenge is a scheme alone (no parameters), a scheme
\* with a token68, or a scheme with parameters whose values are quoted.
MaxChallenges == 3

Param(k, v) == [k |-> k, v |-> v]

Chal(scheme, token, params) == [scheme |-> scheme, token |-> token, params |-> params]

TextChallenges ==
  {Chal("Basic", <<>>, <<Param("realm", "r1")>>),
   Chal("Basic", <<>>, <<>>),
   Chal("Digest", <<>>, <<Param("realm", "r2"), Param("nonce", "n1")>>),
   Chal("Bearer", <<>>, <<>>),
   Chal("Bearer", <<"tok", "=">>, <<>>)}

\* the challenges of a message in order, each with whether it opens a new
\* WWW-Authenticate header (the first always does)
TextMessages ==
  UNION {{[i \in 1..n |-> [chal |-> cs[i], opens |-> (i = 1 \/ i \in breaks)]] :
            cs \in [1..n -> TextChallenges], breaks \in SUBSET (2..n)} :
         n \in 1..MaxChallenges}

RECURSIVE ParamsText(_, _)
ParamsText(params, i) ==
  IF i > Len(params) THEN <<>>
  ELSE (IF i = 1 THEN <<" ">> ELSE <<",", " ">>)
       \o <<params[i].k, "=", "\"", params[i].v, "\"">> \o ParamsText(params, i + 1)

\* a challenge as the server writes it
ChallengeText(c) ==
  <<c.scheme>> \o (IF c.token # <<>> THEN <<" ">> \o c.token ELSE <<>>)
               \o ParamsText(c.params, 1)

\* the values of the WWW-Authenticate headers of message m: the challenges
\* of one header are separated by a comma and a space
RECURSIVE HeaderValues(_, _, _)
HeaderValues(m, i, values) ==
  IF i > Len(m) THEN values
  ELSE IF m[i].opens
       THEN HeaderValues(m, i + 1, Append(values, ChallengeText(m[i].chal)))
       ELSE HeaderValues(m, i + 1,
              [values EXCEPT ![Len(values)] = @ \o <<",", " ">> \o ChallengeText(m[i].chal)])

InitAuth ==
  Calling("CheckAuthScheme",
          {[m |-> m, scheme_to_match |-> x] :
             m \in TextMessages, x \in {<<"Basic">>, <<"Digest">>}})

CallCheckAuthScheme ==
  Returned("CheckAuthScheme",
           CheckAuthSchemeText(HeaderValues(call.in.m, 1, <<>>), call.in.scheme_to_match))

NextAuth == CallCheckAuthScheme

SpecAuth == InitAuth /\ [][NextAuth]_vars

\* the challenges of message m that have scheme x
Of(m, x) == {i \in 1..Len(m) : <<m[i].chal.scheme>> = x}

\* C21: CheckAuthScheme returns 0 for scheme X exactly when the message has
\* a challenge of scheme X, wherever it stands: first or after another
\* challenge of the same header value, in the first or in a later header.
C21_SchemeFound ==
  (pc = "done" /\ call.fn = "CheckAuthScheme")
    => ((call.out.rc = 0) <=> (Of(call.in.m, call.in.scheme_to_match) # {}))

\* the parameters of challenge c as keys and values
Keys(c) == [j \in 1..Len(c.params) |-> <<c.params[j].k>>]
Vals(c) == [j \in 1..Len(c.params) |-> <<c.params[j].v>>]

\* the first challenge of message m that has scheme x
FirstOf(m, x) == m[CHOOSE i \in Of(m, x) : \A j \in Of(m, x) : i <= j].chal

\* C22: when CheckAuthScheme returns 0 for scheme X, the keys, the values
\* and the count it hands back are those of the first challenge of scheme X
\* that has parameters, whatever other challenges stand around it.
C22_ParamsOfFirstMatch ==
  (/\ pc = "done"
   /\ call.fn = "CheckAuthScheme"
   /\ call.out.rc = 0
   /\ Of(call.in.m, call.in.scheme_to_match) # {}
   /\ FirstOf(call.in.m, call.in.scheme_to_match).params # <<>>)
    => /\ call.out.count = Len(FirstOf(call.in.m, call.in.scheme_to_match).params)
       /\ call.out.key = Keys(FirstOf(call.in.m, call.in.scheme_to_match))
       /\ call.out.val = Vals(FirstOf(call.in.m, call.in.scheme_to_match))

(***************************************************************************)
(* parse_headers on the text of a header block.  The table of the source   *)
(* has 100 entries and a line 1024 characters; the model keeps both small. *)
(***************************************************************************)
\* entries of the header table (MAX_HEADERS of the source is 100)
MAX_HEADERS == 2
\* size of the line buffer (MAX_HEADER_LINE of the source is 1024); a
\* field name and a field value have as much room each
MAX_HEADER_LINE == 10

\* while(isspace(*str)) str++ moves the local pointer only: what is cut is
\* the white space at the end, and nothing when all is white space
trim_whitespace(str) ==
  LET start == Span(str, 1, Spaces)
  IN IF start > Len(str) THEN str
     ELSE SubSeq(str, 1, CHOOSE end \in start..Len(str) :
                           /\ ~isspace(str[end])
                           /\ \A j \in (end + 1)..Len(str) : isspace(str[j]))

\* strstr(str + p, "\r\n"): the place of the first CR LF from p on, 0 for NULL
FindCRLF(str, p) ==
  LET at == {i \in p..(Len(str) - 1) : str[i] = "\r" /\ str[i + 1] = "\n"}
  IN IF at = {} THEN 0 ELSE CHOOSE i \in at : \A j \in at : i <= j

\* the character at place i, "" for the terminating 0
At(str, i) == IF i <= Len(str) THEN str[i] ELSE ""

\* the do/while that looks for the end of a folded line: the first CR LF
\* from fold_start on that no space or tab follows
RECURSIVE FoldedLineEnd(_, _)
FoldedLineEnd(str, fold_start) ==
  LET line_end == FindCRLF(str, fold_start)
  IN IF line_end = 0 THEN 0
     ELSE IF At(str, line_end + 2) \in {" ", "\t"}
          THEN FoldedLineEnd(str, line_end + 2)
          ELSE line_end

\* the while loop of parse_headers from line_start on
RECURSIVE HeadersFrom(_, _, _)
HeadersFrom(buffer, line_start, headers) ==
  IF line_start > Len(buffer) \/ Len(headers) >= MAX_HEADERS
  THEN [ret |-> 0, headers |-> headers]
  ELSE LET line_end == FoldedLineEnd(buffer, line_start)
           line == SubSeq(buffer, line_start, line_end - 1)
           colon == Find(line, 1, {":"})
       IN IF line_end = 0 \/ line_end = line_start
          THEN [ret |-> 0, headers |-> headers]
          ELSE IF Len(line) >= MAX_HEADER_LINE \/ colon > Len(line)
          THEN [ret |-> -1, headers |-> headers]
          ELSE HeadersFrom(buffer, line_end + 2,
                 Append(headers,
                        [field_name |-> trim_whitespace(SubSeq(line, 1, colon - 1)),
                         field_value |-> trim_whitespace(From(line, colon + 1))]))

parse_headers(buffer) == HeadersFrom(buffer, 1, <<>>)

\* The header blocks.  A line is a name, what stands between the name and
\* the colon, and the value as written, folds included.
CRLF == <<"\r", "\n">>

Line(name, gap, value) == [name |-> name, gap |-> gap, value |-> value]

\* a value that fills the line buffer
LongValue == [i \in 1..(MAX_HEADER_LINE - 2) |-> "v"]

HeaderLines ==
  {Line(<<"N">>, <<>>, <<"v">>),
   Line(<<"N">>, <<>>, <<" ", "v">>),
   Line(<<"N">>, <<>>, <<" ", " ", "v", " ">>),
   Line(<<"N">>, <<>>, <<"v", " ", "w">>),
   Line(<<"N">>, <<>>, <<"v">> \o CRLF \o <<" ", "w">>),
   Line(<<"N">>, <<>>, <<" ", "v">> \o CRLF \o <<"\t">>),
   Line(<<"N">>, <<" ">>, <<"v", ":", "w">>),
   Line(<<"N">>, <<>>, LongValue)}

\* a block: its lines, and whether the empty line that ends it has arrived
HeaderBlocks ==
  UNION {{[lines |-> ls, ended |-> e] : ls \in [1..n -> HeaderLines], e \in BOOLEAN} :
         n \in 1..(MAX_HEADERS + 1)}

LineText(l) == l.name \o l.gap \o <<":">> \o l.value

RECURSIVE LinesText(_, _)
LinesText(ls, i) ==
  IF i > Len(ls) THEN <<>> ELSE LineText(ls[i]) \o CRLF \o LinesText(ls, i + 1)

BlockText(b) == LinesText(b.lines, 1) \o (IF b.ended THEN CRLF ELSE <<>>)

InitHeaders == Calling("parse_headers", HeaderBlocks)

CallParseHeaders == Returned("parse_headers", parse_headers(BlockText(call.in)))

NextHeaders == CallParseHeaders

SpecHeaders == InitHeaders /\ [][NextHeaders]_vars

\* str with each fold (CR LF and the spaces and tabs after it) written as
\* one space
RECURSIVE Unfolded(_)
Unfolded(str) ==
  IF str = <<>> THEN <<>>
  ELSE IF Len(str) >= 3 /\ SubSeq(str, 1, 2) = CRLF /\ str[3] \in {" ", "\t"}
       THEN <<" ">> \o Unfolded(From(str, Span(str, 3, {" ", "\t"})))
       ELSE <<Head(str)>> \o Unfolded(Tail(str))

\* block b with every value written on one line
UnfoldedBlock(b) ==
  [b EXCEPT !.lines = [i \in 1..Len(b.lines) |->
                         [b.lines[i] EXCEPT !.value = Unfolded(@)]]]

\* parse_headers has run on a block
Parsed == pc = "done" /\ call.fn = "parse_headers"

\* C23: what parse_headers makes of a block whose values are folded is what
\* it makes of the block with the same values written on one line.
C23_FoldedAsUnfolded ==
  Parsed => call.out = parse_headers(BlockText(UnfoldedBlock(call.in)))

\* the length of a line as parse_headers measures it
LineLen(l) == Len(LineText(l))

\* C24: parse_headers fails on a block with more than MAX_HEADERS lines and
\* on a block with a line of MAX_HEADER_LINE characters or more, and when it
\* succeeds its list has one entry for every line of the block, in order.
C24_NoSilentTruncation ==
  Parsed =>
    /\ (Len(call.in.lines) > MAX_HEADERS) => call.out.ret = -1
    /\ (\E i \in 1..Len(call.in.lines) : LineLen(call.in.lines[i]) >= MAX_HEADER_LINE)
         => call.out.ret = -1
    /\ (call.out.ret = 0)
         => /\ Len(call.out.headers) = Len(call.in.lines)
            /\ \A i \in 1..Len(call.in.lines) :
                 call.out.headers[i].field_name[1] = call.in.lines[i].name[1]

\* str without the white space at its start and at its end
Trimmed(str) ==
  LET inner == {i \in 1..Len(str) : ~isspace(str[i])}
  IN IF inner = {} THEN <<>>
     ELSE SubSeq(str, CHOOSE i \in inner : \A j \in inner : i <= j,
                      CHOOSE i \in inner : \A j \in inner : i >= j)

\* C25: the name stored for a line is what stands before its first colon
\* and the value what stands after it, both without the white space around
\* them and with everything in between kept.
C25_SplitAndTrim ==
  Parsed =>
    \A i \in 1..Len(call.out.headers) :
      /\ call.out.headers[i].field_name
           = Trimmed(call.in.lines[i].name \o call.in.lines[i].gap)
      /\ call.out.headers[i].field_value = Trimmed(call.in.lines[i].value)

(***************************************************************************)
(* auth_digest.  A string is a sequence of pieces: a piece of text known   *)
(* by its name and its length, or the 32 hex digits ast_md5_hash makes of  *)
(* a string.  ast_md5_hash is the MD5 of Asterisk; all that is used of it  *)
(* is that it is a function and passes the self test of auth_digest.       *)
(***************************************************************************)
\* char A1[256], A2[256] and char KD_ARGS[513] of auth_digest
DigestBufLen == 256
KdArgsLen == 513
\* an MD5 hash in hex
HashLen == 32

Text(name, n) == <<[s |-> name, of |-> <<>>, n |-> n]>>

ast_md5_hash(input) == <<[s |-> "md5", of |-> input, n |-> HashLen]>>

RECURSIVE strlen(_)
strlen(str) == IF str = <<>> THEN 0 ELSE Head(str).n + strlen(Tail(str))

\* sprintf(buf, "%s:%s", a, b)
Colon(a, b) == a \o Text(":", 1) \o b

\* what auth_digest leaves when every string fits its buffer
DigestResponse(username, passwd, realm, nonce, uri, method) ==
  LET A1 == Colon(username, Colon(realm, passwd))
      HA1 == ast_md5_hash(A1)
      A2 == Colon(method, uri)
      HA2 == ast_md5_hash(A2)
      KD_ARGS == Colon(HA1, Colon(nonce, HA2))
  IN ast_md5_hash(KD_ARGS)

\* the outcomes of auth_digest.  sprintf does not look at the size of A1, A2
\* and KD_ARGS: a string that does not fit is written past the end of an
\* array on the stack, after which the call may end the process, return
\* with other bytes in digest_result, or return what it would have returned.
auth_digest(username, passwd, realm, nonce, uri, method) ==
  LET fits == /\ strlen(Colon(username, Colon(realm, passwd))) < DigestBufLen
              /\ strlen(Colon(method, uri)) < DigestBufLen
              /\ HashLen + 1 + strlen(nonce) + 1 + HashLen < KdArgsLen
      good == [ret |-> 0, crashed |-> FALSE,
               digest_result |-> DigestResponse(username, passwd, realm, nonce, uri, method)]
  IN IF fits THEN {good}
     ELSE {good, [good EXCEPT !.digest_result = Text("other bytes", HashLen)],
           [good EXCEPT !.crashed = TRUE, !.digest_result = <<>>]}

\* calls of auth_digest made in a row with the same arguments
MaxCalls == 2

\* the arguments: uri is "rtsp://" hostport url or the SIP uri, which the
\* callers keep in char uri[256]; qop, cnonce and nc are what the challenge
\* had of them (nothing, or a value), which is not handed to auth_digest
DigestArguments ==
  {[username |-> Text("u", 1), passwd |-> Text("p", 1), realm |-> r, nonce |-> n,
    uri |-> u, method |-> m, qop |-> q, cnonce |-> c, nc |-> k] :
     r \in {Text("r1", 2), Text("r2", 2)},
     n \in {Text("n1", 2), Text("n2", 2)},
     u \in {Text("rtsp://h/x", 10), Text("rtsp://h/long", 250)},
     m \in {Text("DESCRIBE", 8), Text("INVITE", 6)},
     q \in {<<>>, Text("auth", 4)},
     c \in {<<>>, Text("c1", 2)},
     k \in {<<>>, Text("00000001", 8)}}

InitDigest == Calling("auth_digest", DigestArguments)

CallAuthDigest ==
  /\ pc = "call"
  /\ call.fn = "auth_digest"
  /\ Len(call.out) < MaxCalls
  /\ \A i \in 1..Len(call.out) : ~call.out[i].crashed
  /\ \E result \in auth_digest(call.in.username, call.in.passwd, call.in.realm,
                               call.in.nonce, call.in.uri, call.in.method) :
       call' = [call EXCEPT !.out = Append(@, result)]
  /\ UNCHANGED <<pc, Others>>

NextDigest == CallAuthDigest

SpecDigest == InitDigest /\ [][NextDigest]_vars

\* H(H(username:realm:password) : nonce : H(method:uri))
Expected(in) ==
  ast_md5_hash(Colon(ast_md5_hash(Colon(in.username, Colon(in.realm, in.passwd))),
                     Colon(in.nonce, ast_md5_hash(Colon(in.method, in.uri)))))

\* C26: every call of auth_digest returns the MD5 of
\* MD5(username:realm:password):nonce:MD5(method:uri); so calls with the
\* same arguments return the same, whatever qop, cnonce and nc the challenge
\* had.
C26_DigestResponse ==
  call.fn = "auth_digest"
    => \A i \in 1..Len(call.out) :
         /\ ~call.out[i].crashed
         /\ call.out[i].ret = 0
         /\ call.out[i].digest_result = Expected(call.in)

(***************************************************************************)
(* GetUdpPorts, as RtspPlayerConnect calls it: for the audio pair, then    *)
(* for the video pair.  A socket is the port the system has bound it to, 0 *)
(* while it is bound to none; p and q are what getsockname reported.  The  *)
(* system gives a socket bound to port 0 any free port of its range, and   *)
(* refuses a port that is in use, by this process or by another.           *)
(***************************************************************************)
\* the lowest port the system assigns, and how many ports above it it uses
FirstPort == 32768
PortChoices == 3
\* bind() calls of one run
MaxBinds == 7
\* ports are 16 bits wide
PortLimit == 65536

\* the ports the system picks for bind() with port 0
EphemeralPorts == (FirstPort..(FirstPort + PortChoices - 1)) \cup {PortLimit - 2, PortLimit - 1}

Socket(port) == [port |-> port]

\* the locals of a call that has not bound anything yet
NoPorts == [a |-> Socket(0), b |-> Socket(0), p |-> 0, q |-> 0, refused |-> 0]

\* the ports the open sockets of the process hold: those of the pairs
\* handed back and those in ports
InUse(pairs, ports) ==
  {pairs[i].a.port : i \in 1..Len(pairs)} \cup {pairs[i].b.port : i \in 1..Len(pairs)}
    \cup {sock.port : sock \in ports}

\* the outcomes of socket() and bind(sendAddr) with *port = port, given the
\* ports in use: a free port of the range for port 0, the port itself
\* when no one has it, and an unbound socket when bind fails
Bind(port, used) ==
  IF port = 0
  THEN {Socket(n) : n \in EphemeralPorts \ used}
  ELSE {Socket(0)} \cup (IF port \in used THEN {} ELSE {Socket(port)})

\* htons(*p+1), cut to 16 bits
NextPort(p) == IF p > 0 THEN (p + 1) % PortLimit ELSE 0

\* the test of the while loop, without the parity
UnpairedAnyParity(p, q) == p + 1 # q

\* the test of the while loop
Unpaired(p, q) == p % 2 # 0 \/ p + 1 # q

InitPorts ==
  /\ pc = "call"
  /\ Parked
  /\ \E isIPv6 \in BOOLEAN :
       call = [fn |-> "GetUdpPorts", in |-> isIPv6,
               out |-> [pairs |-> <<>>, cur |-> NoPorts, binds |-> 0]]

\* up to the while loop: two sockets bound to port 0, and their ports read
GetUdpPortsEnter ==
  /\ pc = "call"
  /\ call.fn = "GetUdpPorts"
  /\ call.out.binds + 2 <= MaxBinds
  /\ \E a \in Bind(0, InUse(call.out.pairs, {})) :
       \E b \in Bind(0, InUse(call.out.pairs, {a})) :
         call' = [call EXCEPT !.out.cur = [a |-> a, b |-> b, p |-> a.port,
                                            q |-> b.port, refused |-> 0],
                              !.out.binds = @ + 2]
  /\ pc' = "ports_loop"
  /\ UNCHANGED Others

\* one pass of the while loop
GetUdpPortsRetry ==
  /\ pc = "ports_loop"
  /\ Unpaired(call.out.cur.p, call.out.cur.q)
  /\ call.out.binds < MaxBinds
  /\ LET cur == call.out.cur
         a == cur.b
         p == cur.q
     IN \E b \in Bind(NextPort(p), InUse(call.out.pairs, {a})) :
          call' = [call EXCEPT !.out.cur =
                                  [a |-> a, b |-> b, p |-> p, q |-> b.port,
                                   refused |-> IF NextPort(p) # 0 /\ b.port = 0
                                               THEN cur.refused + 1 ELSE cur.refused],
                               !.out.binds = @ + 1]
  /\ UNCHANGED <<pc, Others>>

\* the loop is left and the pair handed back
GetUdpPortsReturn ==
  /\ pc = "ports_loop"
  /\ ~Unpaired(call.out.cur.p, call.out.cur.q)
  /\ call' = [call EXCEPT !.out.pairs = Append(@, call.out.cur), !.out.cur = NoPorts]
  /\ pc' = IF Len(call.out.pairs) = 0 THEN "call" ELSE "done"
  /\ UNCHANGED Others

NextPorts ==
  \/ GetUdpPortsEnter
  \/ GetUdpPortsRetry
  \/ GetUdpPortsReturn

SpecPorts == InitPorts /\ [][NextPorts]_vars

Half == 65536
\* the fraction field of a reception report is 8 bits wide
FractionLimit == 256
\* MediaStatsUpdate calls between two resets
MaxPackets == 3

\* the sequence numbers of the packets (16 bits in the RTP header)
SeqNumbers == {0, 1, 2, 65535}

\* a - b in unsigned int, for a and b below Half, as its two halves
Minus(a, b) ==
  IF a >= b THEN [hi |-> 0, lo |-> a - b]
  ELSE [hi |-> Half - 1, lo |-> Half - (b - a)]

\* n / d in unsigned int, for n below Half and d # 0
Quotient(n, d) == IF d.hi > 0 THEN 0 ELSE n \div d.lo

MediaStatsReset(stats) == [stats EXCEPT !.count = 0, !.minSN = 0, !.maxSN = 0]

MediaStatsUpdate(stats, sn) ==
  [stats EXCEPT !.count = @ + 1,
                !.minSN = IF stats.minSN = 0 THEN sn ELSE @,
                !.maxSN = IF stats.maxSN < sn THEN sn ELSE @]

\* the test before the division, taken for true
SpansAlways(stats) == TRUE

\* stats->maxSN-stats->minSN>0
Spans(stats) ==
  LET d == Minus(stats.maxSN, stats.minSN)
  IN d.hi > 0 \/ d.lo > 0

\* no report built yet
NoReport == [of |-> [count |-> 0, minSN |-> 0, maxSN |-> 0], fraction |-> 0,
             divided |-> FALSE, divisor |-> [hi |-> 0, lo |-> 0],
             last_seq |-> 0, built |-> FALSE]

\* the reception report of MediaStatsRR: the statistics it is built of, the
\* fraction and last_seq fields, whether the division was evaluated and by
\* what (a division by 0 ends the process and leaves no fraction, written -1)
MediaStatsRR(stats) ==
  LET d == Minus(stats.maxSN, stats.minSN)
  IN [of |-> stats,
      fraction |-> IF Spans(stats)
                   THEN IF d.hi = 0 /\ d.lo = 0 THEN -1
                        ELSE Quotient(255 * stats.count, d) % FractionLimit
                   ELSE 255,
      divided |-> Spans(stats),
      divisor |-> d,
      last_seq |-> stats.maxSN,
      built |-> TRUE]

\* reset tells that MediaStatsReset has run, seen is the sequence numbers
\* passed to MediaStatsUpdate since
InitStats ==
  /\ pc = "call"
  /\ Parked
  /\ \E count \in 0..1, minSN \in SeqNumbers, maxSN \in SeqNumbers :
       call = [fn |-> "MediaStats", in |-> <<>>,
               out |-> [stats |-> [count |-> count, minSN |-> minSN, maxSN |-> maxSN],
                        rtcp |-> NoReport, reset |-> FALSE, seen |-> <<>>]]

CallMediaStatsReset ==
  /\ pc = "call"
  /\ call.fn = "MediaStats"
  /\ call' = [call EXCEPT !.out.stats = MediaStatsReset(@),
                           !.out.reset = TRUE, !.out.seen = <<>>]
  /\ UNCHANGED <<pc, Others>>

CallMediaStatsUpdate ==
  /\ pc = "call"
  /\ call.fn = "MediaStats"
  /\ call.out.stats.count < MaxPackets
  /\ \E sn \in SeqNumbers :
       call' = [call EXCEPT !.out.stats = MediaStatsUpdate(@, sn),
                            !.out.seen = IF call.out.reset THEN Append(@, sn) ELSE @]
  /\ UNCHANGED <<pc, Others>>

CallMediaStatsRR ==
  /\ pc = "call"
  /\ call.fn = "MediaStats"
  /\ call' = [call EXCEPT !.out.rtcp = MediaStatsRR(call.out.stats)]
  /\ UNCHANGED <<pc, Others>>

NextStats ==
  \/ CallMediaStatsReset
  \/ CallMediaStatsUpdate
  \/ CallMediaStatsRR

SpecStats == InitStats /\ [][NextStats]_vars

\* C28: a report built of statistics whose maxSN equals minSN has 0xFF as
\* its fraction, and no report is built with a division by zero.
C28_FractionSentinel ==
  (call.fn = "MediaStats" /\ call.out.rtcp.built)
    => /\ (call.out.rtcp.of.maxSN = call.out.rtcp.of.minSN)
            => call.out.rtcp.fraction = 255 /\ ~call.out.rtcp.divided
       /\ call.out.rtcp.divided
            => call.out.rtcp.divisor # [hi |-> 0, lo |-> 0]

\* one packet was counted since the reset and the report has the sentinel
C28_Witness ==
  /\ call.fn = "MediaStats"
  /\ call.out.rtcp.built
  /\ call.out.rtcp.of.count = 1
  /\ call.out.rtcp.of.minSN = 2
  /\ call.out.rtcp.of.maxSN = 2
  /\ call.out.rtcp.fraction = 255

(***************************************************************************)
(* The RTSP_DESCRIBE case of main_loop on the bytes of the control socket. *)
(* The text is cut into units of a dozen bytes or more: a status line, a   *)
(* header line, a header line together with the blank line after it, a     *)
(* half of the description.  bufferLen, contentLength and responseLen      *)
(* count units.  The peer answers every DESCRIBE it gets with one          *)
(* response; the stream socket hands the bytes over in any pieces.  With   *)
(* SIP enabled the answer to the OPTIONS of the speaker arrives meanwhile  *)
(* and goes through the same buffer.                                       *)
(***************************************************************************)
\* room of main_loop's buffer in units (the source has 16383 bytes, and one
\* more for the final 0)
DescribeBufferSize == 6
\* DESCRIBE requests of one session
MaxDescribes == 5

\* the 401 response with a Basic challenge
Unauthorized == <<"S401", "BasicE">>

\* the description, Content-Length units long
SdpBody == <<"v1", "v2">>

\* the 2xx response: status line, Content-Type: application/sdp,
\* Content-Length and the blank line, the description
Described == <<"S200", "T", "LE">> \o SdpBody

\* the 200 response of the SIP peer to the OPTIONS of the speaker: status
\* line, Via and the blank line
SipAnswer == <<"SIP200", "ViaE">>

\* units ending in CR LF, units ending in CR LF CR LF, header lines
EndCRLF == {"S401", "S200", "T", "BasicE", "LE", "SIP200", "ViaE"}
EndBlank == {"BasicE", "LE", "ViaE"}

\* what the array holds before anything is written to it: 0 bytes or others
Garbage == {"0", "x"}

\* buffer[i], the stack above the array included
Cell(buffer, i) == IF i <= Len(buffer) THEN buffer[i] ELSE "x"

\* memmove(buffer, buffer+from, n)
memmove(buffer, from, n) ==
  [i \in 1..Len(buffer) |-> IF i <= n THEN Cell(buffer, i + from) ELSE buffer[i]]

\* strlen(buffer)
StrLen(buffer) ==
  IF \E i \in 1..Len(buffer) : buffer[i] = "0"
  THEN (CHOOSE i \in 1..Len(buffer) :
          buffer[i] = "0" /\ \A j \in 1..(i - 1) : buffer[j] # "0") - 1
  ELSE Len(buffer)

\* the first unit of the string that is in S, 0 when there is none
FirstIn(buffer, S) ==
  LET hits == {i \in 1..StrLen(buffer) : buffer[i] \in S}
  IN IF hits = {} THEN 0 ELSE CHOOSE i \in hits : \A j \in hits : i <= j

\* recv(fd,buffer,bufferSize-*bufferLen,0) taking n units of the wire, and
\* the bookkeeping after it; n = 0 is what recv returns for no room
RecvResponseText(d, n) ==
  IF n = 0 THEN [d EXCEPT !.end = 1, !.ret = 0]
  ELSE LET len == d.bufferLen + n
       IN [d EXCEPT !.buffer = [i \in 1..Len(d.buffer) |->
                                  IF i <= n THEN d.wire[i]
                                  ELSE IF i = len + 1 THEN "0" ELSE d.buffer[i]],
                    !.bufferLen = len,
                    !.wire = SubSeq(d.wire, n + 1, Len(d.wire)),
                    !.received = @ + Cardinality({i \in 1..n : d.wire[i] \in {"v1", "v2"}}),
                    !.ret = n]

\* atoi(buffer+9): the code of a status line, 0 for the other units
GetResponseCodeText(buffer) ==
  CASE buffer[1] = "S401" -> 401
    [] buffer[1] = "S200" -> 200
    [] OTHER -> 0

\* the units up to the first CR LF CR LF
GetResponseLenText(buffer) == FirstIn(buffer, EndBlank)

\* HasHeader: the first occurrence of the name, at the start of a line and
\* not beyond len
HasHeaderText(buffer, len, unit) ==
  LET i == FirstIn(buffer, {unit})
  IN i >= 2 /\ i - 1 <= len /\ buffer[i - 1] \in EndCRLF

\* parse_headers from unit i on, and the search for a Basic challenge in
\* the lines it returns: text without CR LF runs into the line after it
RECURSIVE BasicFrom(_, _)
BasicFrom(buffer, i) ==
  IF i > StrLen(buffer) THEN FALSE
  ELSE CASE buffer[i] = "BasicE" -> TRUE
         [] buffer[i] \in {"LE", "ViaE", "S401", "S200", "SIP200"} -> FALSE
         [] OTHER -> BasicFrom(buffer, i + 1)

\* GetAuthSchemeBasic(buffer,bufferLen,&basic_data) == 0
GetAuthSchemeBasicText(buffer) ==
  FirstIn(buffer, EndCRLF) > 0 /\ BasicFrom(buffer, FirstIn(buffer, EndCRLF) + 1)

\* RtspPlayerDescribe after the Authorization header is set
DescribeAgain(d) == [d EXCEPT !.describes = @ + 1, !.asked = @ + 1]

\* from "If there is not enough data" on: CreateSDP is handed the first
\* contentLength units of the buffer
DescribeBodyText(d) ==
  IF d.bufferLen < d.contentLength THEN d
  ELSE [d EXCEPT !.parsing = TRUE,
                 !.text = SubSeq(d.buffer, 1, d.contentLength),
                 !.bufferLen = @ - d.contentLength,
                 !.buffer = memmove(@, d.responseLen, d.bufferLen - d.contentLength),
                 !.contentLength = 0]

\* case RTSP_DESCRIBE, the socket having n units for recv
CaseDescribeText(d0, n) ==
  LET d == RecvResponseText(d0, n)
      responseCode == GetResponseCodeText(d.buffer)
      responseLen == GetResponseLenText(d.buffer)
      head == [d EXCEPT !.responseLen = responseLen]
  IN IF d.ret = 0 THEN d
     ELSE IF responseCode = 401
          THEN IF GetAuthSchemeBasicText(d.buffer) THEN DescribeAgain(d)
               ELSE [d EXCEPT !.end = 1]
     ELSE IF responseCode < 200 \/ responseCode > 299 THEN [d EXCEPT !.end = 1]
     ELSE IF d.contentLength = 0
          THEN IF responseLen = 0 THEN head
               ELSE IF ~HasHeaderText(d.buffer, responseLen, "T")
                    THEN [head EXCEPT !.end = 1,
                            !.contentLength =
                              IF HasHeaderText(d.buffer, responseLen, "LE")
                              THEN Len(SdpBody) ELSE 0]
                    ELSE DescribeBodyText(
                           [head EXCEPT
                              !.contentLength =
                                IF HasHeaderText(d.buffer, responseLen, "LE")
                                THEN Len(SdpBody) ELSE 0,
                              !.bufferLen = @ - responseLen,
                              !.buffer = memmove(@, responseLen, d.bufferLen - responseLen)])
          ELSE DescribeBodyText(d)

\* main_loop has sent the first DESCRIBE and waits in state RTSP_DESCRIBE
InitDescribe ==
  /\ pc = "call"
  /\ Parked
  /\ \E garbage \in [1..(DescribeBufferSize + 1) -> Garbage], sip \in BOOLEAN :
       call = [fn |-> "describe", in |-> <<>>,
               out |-> [buffer |-> garbage, bufferLen |-> 0, contentLength |-> 0,
                        responseLen |-> 0, end |-> 0, ret |-> 0, wire |-> <<>>,
                        sipWire |-> IF sip THEN SipAnswer ELSE <<>>,
                        describes |-> 1, asked |-> 1, received |-> 0,
                        parsing |-> FALSE, text |-> <<>>,
                        only401 |-> TRUE, described |-> FALSE, prompt |-> TRUE]]

\* the peer answers a DESCRIBE: 401 with the challenge, or the description
\* (once)
PeerAnswers ==
  /\ pc = "call"
  /\ call.fn = "describe"
  /\ call.out.asked > 0
  /\ \E r \in IF call.out.described THEN {Unauthorized} ELSE {Unauthorized, Described} :
       call' = [call EXCEPT !.out.wire = @ \o r,
                            !.out.asked = @ - 1,
                            !.out.only401 = @ /\ r = Unauthorized,
                            !.out.described = @ \/ r = Described]
  /\ UNCHANGED <<pc, Others>>

\* units recv can return: 0 when it is asked for none, else any number of
\* those waiting that fits
Pieces(d) ==
  LET room == DescribeBufferSize - d.bufferLen
      fits == IF Len(d.wire) < room THEN Len(d.wire) ELSE room
  IN IF room = 0 THEN {0} ELSE 1..fits

\* the control socket is readable in state RTSP_DESCRIBE
DescribeReadable ==
  /\ pc = "call"
  /\ call.fn = "describe"
  /\ call.out.end = 0
  /\ ~call.out.parsing
  /\ call.out.wire # <<>>
  /\ call.out.describes < MaxDescribes
  /\ \E n \in Pieces(call.out) :
       call' = [call EXCEPT
                  !.out = [CaseDescribeText(call.out, n) EXCEPT
                             !.prompt = @ /\ \A m \in Pieces(call.out) : m <= n]]
  /\ UNCHANGED <<pc, Others>>

\* case SIP_STATE_OPTIONS: the socket of the speaker is readable, the
\* message goes into the buffer of main_loop and is done with
CaseSipOptionsText(d) ==
  LET room == DescribeBufferSize - d.bufferLen
      n == IF Len(d.sipWire) < room THEN Len(d.sipWire) ELSE room
      r == RecvResponseText([d EXCEPT !.wire = d.sipWire], n)
  IN IF r.ret = 0 THEN [d EXCEPT !.ret = 0, !.sipWire = <<>>]
     ELSE [r EXCEPT !.wire = d.wire, !.sipWire = r.wire, !.bufferLen = 0,
                    !.end = d.end]

SipReadable ==
  /\ pc = "call"
  /\ call.fn = "describe"
  /\ call.out.end = 0
  /\ ~call.out.parsing
  /\ call.out.sipWire # <<>>
  /\ call' = [call EXCEPT !.out = CaseSipOptionsText(@)]
  /\ UNCHANGED <<pc, Others>>

NextDescribe ==
  \/ PeerAnswers
  \/ DescribeReadable
  \/ SipReadable

SpecDescribe == InitDescribe /\ [][NextDescribe]_vars

\* C29: while the peer answers every DESCRIBE with the 401 and its challenge
\* (each read taking all that waits and fits), the session is not ended.
C29_NoRetryLimit ==
  (call.fn = "describe" /\ call.out.only401 /\ call.out.prompt) => call.out.end = 0

\* C30: the SDP parser is not started before Content-Length units of the
\* description have arrived, and is handed exactly the description.
C30_WholeBodyParsed ==
  (call.fn = "describe" /\ call.out.parsing)
    => call.out.received >= Len(SdpBody) /\ call.out.text = SdpBody

(***************************************************************************)
(* The block at the bottom of the loop body of main_loop, with the         *)
(* statistics it reports.  A pass of the loop is its branch (at "branch",  *)
(* entered while the end flag is 0: the player changes state, an RTP       *)
(* packet is counted, time goes by, a hangup or an RTCP BYE sets the end   *)
(* flag) and then this block (at "bottom").  The RTCP sockets are open:    *)
(* the player is connected.                                                *)
(***************************************************************************)
\* passes of the loop
MaxPasses == 5

\* the sequence numbers of the packets counted here
FewSeqNumbers == {1, 2}

\* how long a pass can take
PassTimes == {RtcpPeriodMs \div 2, RtcpPeriodMs \div 2 + 1}

NoStats == [count |-> 0, minSN |-> 0, maxSN |-> 0]

\* the timer runs and has run out whatever the clock says
RtcpDueAlways(d) == d.rtcptv # 0

\* !ast_tvzero(rtcptv) and ast_tvdiff_ms(ast_tvnow(),rtcptv)>10000
RtcpDue(d) == d.rtcptv # 0 /\ d.now - d.rtcptv > RtcpPeriodMs

\* the report of one stream: MediaStatsRR, MediaStatsReset, send
FlushReport(d, who) ==
  IF who = "audio"
  THEN [d EXCEPT !.reports = Append(@, [who |-> who, rtcp |-> MediaStatsRR(d.audioStats)]),
                 !.audioStats = MediaStatsReset(@)]
  ELSE [d EXCEPT !.reports = Append(@, [who |-> who, rtcp |-> MediaStatsRR(d.videoStats)]),
                 !.videoStats = MediaStatsReset(@)]

\* from "If the playback has started" to the end of the loop body; out is
\* the outcome of the send() of RtspPlayerOptions
KeepAliveBlock(d, out) ==
  IF d.state # RTSP_PLAYING THEN d
  ELSE IF d.rtcptv = 0 THEN [d EXCEPT !.rtcptv = d.now]
  ELSE IF RtcpDue(d)
       THEN LET a == IF d.audioRtcp > 0 THEN FlushReport(d, "audio") ELSE d
                v == IF d.videoRtcp > 0 THEN FlushReport(a, "video") ELSE a
            IN [v EXCEPT !.options = Append(@, out),
                         !.end = IF out = "error" THEN 0 ELSE @,
                         !.rtcptv = d.now]
       ELSE d

InitKeepAlive ==
  /\ pc = "call"
  /\ Parked
  /\ \E state \in RTSP_DESCRIBE..RTSP_PLAY :
       call = [fn |-> "keepalive", in |-> <<>>,
             out |-> [at |-> "branch", state |-> state, end |-> 0,
                      rtcptv |-> 0, now |-> 1, passes |-> 0,
                      audioRtcp |-> 1, videoRtcp |-> 1,
                      audioStats |-> NoStats, videoStats |-> NoStats,
                      reports |-> <<>>, options |-> <<>>]]

\* the branch of a pass: what the last pass reported is forgotten
Branch(d) == [d EXCEPT !.at = "bottom", !.passes = @ + 1, !.reports = <<>>,
                       !.options = <<>>]

\* a response moves the player on to its next state
PlayerAdvances ==
  /\ pc = "call"
  /\ call.fn = "keepalive"
  /\ call.out.at = "branch"
  /\ call.out.end = 0
  /\ call.out.passes < MaxPasses
  /\ call.out.state < RTSP_PLAYING
  /\ call' = [call EXCEPT !.out = [Branch(@) EXCEPT !.state = @ + 1]]
  /\ UNCHANGED <<pc, Others>>

\* an RTP packet of a stream is counted
PacketCounted ==
  /\ pc = "call"
  /\ call.fn = "keepalive"
  /\ call.out.at = "branch"
  /\ call.out.end = 0
  /\ call.out.passes < MaxPasses
  /\ call.out.state >= RTSP_PLAY
  /\ \E who \in {"audio", "video"}, sn \in FewSeqNumbers :
       call' = [call EXCEPT
                  !.out = IF who = "audio"
                          THEN [Branch(@) EXCEPT !.audioStats = MediaStatsUpdate(@, sn)]
                          ELSE [Branch(@) EXCEPT !.videoStats = MediaStatsUpdate(@, sn)]]
  /\ UNCHANGED <<pc, Others>>

\* the wait of a pass takes its time
TimePasses ==
  /\ pc = "call"
  /\ call.fn = "keepalive"
  /\ call.out.at = "branch"
  /\ call.out.end = 0
  /\ call.out.passes < MaxPasses
  /\ \E dt \in PassTimes :
       call' = [call EXCEPT !.out = [Branch(@) EXCEPT !.now = @ + dt]]
  /\ UNCHANGED <<pc, Others>>

\* the wait of a pass ends with a hangup frame of the channel, or an RTCP
\* BYE of the server: the end flag is set
EndRequested ==
  /\ pc = "call"
  /\ call.fn = "keepalive"
  /\ call.out.at = "branch"
  /\ call.out.end = 0
  /\ call.out.passes < MaxPasses
  /\ \E dt \in PassTimes :
       call' = [call EXCEPT !.out = [Branch(@) EXCEPT !.end = 1, !.now = @ + dt]]
  /\ UNCHANGED <<pc, Others>>

\* the bottom of the loop body
BottomOfPass ==
  /\ pc = "call"
  /\ call.fn = "keepalive"
  /\ call.out.at = "bottom"
  /\ \E out \in SendOutcomes :
       call' = [call EXCEPT !.out = [KeepAliveBlock(@, out) EXCEPT !.at = "branch"]]
  /\ UNCHANGED <<pc, Others>>

NextKeepAlive ==
  \/ PlayerAdvances
  \/ PacketCounted
  \/ TimePasses
  \/ EndRequested
  \/ BottomOfPass

SpecKeepAlive == InitKeepAlive /\ [][NextKeepAlive]_vars

\* C32: at the bottom of a pass in state PLAYING with more than 10 s gone
\* since the timer was set, the audio and the video report are built of the
\* statistics as they stand, both statistics are reset, one OPTIONS is
\* handed to send() and the timer is set to the clock; at the bottom of
\* any other pass no OPTIONS is sent and no report is built.
C32_KeepAlive ==
  [][(call.fn = "keepalive" /\ call.out.at = "bottom" /\ call'.out.at = "branch")
       => IF call.out.state = RTSP_PLAYING /\ call.out.rtcptv # 0
             /\ call.out.now - call.out.rtcptv > 10000
          THEN /\ call'.out.reports =
                    <<[who |-> "audio", rtcp |-> MediaStatsRR(call.out.audioStats)],
                      [who |-> "video", rtcp |-> MediaStatsRR(call.out.videoStats)]>>
               /\ call'.out.audioStats = NoStats
               /\ call'.out.videoStats = NoStats
               /\ Len(call'.out.options) = 1
               /\ call'.out.rtcptv = call.out.now
          ELSE /\ call'.out.options = <<>>
               /\ call'.out.reports = <<>>
               /\ call'.out.audioStats = call.out.audioStats
               /\ call'.out.videoStats = call.out.videoStats]_vars

\* a keep-alive has gone out with the reports of streams that had packets
C32_Witness ==
  /\ call.fn = "keepalive"
  /\ call.out.at = "branch"
  /\ Len(call.out.options) = 1
  /\ Len(call.out.reports) = 2
  /\ call.out.reports[1].rtcp.of.count = 1
  /\ call.out.audioStats = NoStats

(***************************************************************************)
(* CreateSDP line by line, on bodies of m= lines, a=rtpmap lines and other *)
(* lines, with sip_enable 0.  A codec name is a sequence of pieces of      *)
(* text, cut where one name of the table is the beginning of another       *)
(* ("H26" "3" "-2000").  call.in is the body, call.out what CreateSDP has  *)
(* built after i lines: the two media, the current one, the counter n.     *)
(***************************************************************************)
\* the lines of a body
MaxLines == 3

mimeTypes ==
  << [format |-> "G723", name |-> <<"G72", "3">>],
     [format |-> "GSM", name |-> <<"GSM">>],
     [format |-> "PCMU", name |-> <<"PCM", "U">>],
     [format |-> "PCMA", name |-> <<"PCM", "A">>],
     [format |-> "G726", name |-> <<"G72", "6", "-32">>],
     [format |-> "ADPCM", name |-> <<"DVI4">>],
     [format |-> "SLIN", name |-> <<"L", "16">>],
     [format |-> "LPC10", name |-> <<"L", "PC">>],
     [format |-> "G729", name |-> <<"G72", "9">>],
     [format |-> "SPEEX", name |-> <<"speex">>],
     [format |-> "ILBC", name |-> <<"iLBC">>],
     [format |-> "G722", name |-> <<"G72", "2">>],
     [format |-> "G726_AAL2", name |-> <<"AAL2-", "G72", "6", "-32">>],
     [format |-> "AMRNB", name |-> <<"AMR">>],
     [format |-> "JPEG", name |-> <<"JPEG">>],
     [format |-> "PNG", name |-> <<"PNG">>],
     [format |-> "H261", name |-> <<"H26", "1">>],
     [format |-> "H263", name |-> <<"H26", "3">>],
     [format |-> "H263P", name |-> <<"H26", "3", "-2000">>],
     [format |-> "H264", name |-> <<"H26", "4">>],
     [format |-> "MP4", name |-> <<"MP4V-ES">>] >>

\* strncasecmp(ini, name, len) == 0 with text the len characters at ini: the
\* first len characters of name are the text
strncasecmp(text, name) ==
  /\ Len(text) <= Len(name)
  /\ SubSeq(name, 1, Len(text)) = text

\* no struct SDPMedia; stray counts the writes made through formats[n]
\* with n outside the array
NoMedia == [made |-> FALSE, num |-> 0, formats |-> <<>>, all |-> {}, stray |-> 0]

\* the media of an m= line with so many spaces
CreateMedia(spaces) ==
  IF spaces < 3 THEN NoMedia
  ELSE [made |-> TRUE, num |-> spaces - 2,
        formats |-> [k \in 1..(spaces - 2) |-> NoFormat], all |-> {}, stray |-> 0]

\* media->formats[n]->format = format; media->all |= format
SetFormat(media, n, format) ==
  IF n < media.num
  THEN [media EXCEPT !.formats[n + 1] = format, !.all = @ \cup {format}]
  ELSE [media EXCEPT !.stray = @ + 1, !.all = @ \cup {format}]

\* the loop over mimeTypes from entry f on: every entry that compares equal
\* sets formats[n] and counts n up (the break is commented out)
RECURSIVE CheckFormats(_, _, _, _)
CheckFormats(f, media, n, text) ==
  IF f > Len(mimeTypes) THEN [media |-> media, n |-> n]
  ELSE IF strncasecmp(text, mimeTypes[f].name)
       THEN CheckFormats(f + 1, SetFormat(media, n, mimeTypes[f].format), n + 1, text)
       ELSE CheckFormats(f + 1, media, n, text)

\* the media CreateSDP's pointer media stands for
Current(o) ==
  CASE o.media = "audio" -> o.audio
    [] o.media = "video" -> o.video
    [] OTHER -> NoMedia

\* the branch of an m= line
MediaBranch(o, line) ==
  LET created == CreateMedia(line.spaces)
      named == IF created.made THEN line.media ELSE "none"
  IN CASE line.media = "video" -> [o EXCEPT !.video = created, !.media = named, !.n = 0]
       [] line.media = "audio" -> [o EXCEPT !.audio = created, !.media = named, !.n = 0]
       [] OTHER -> [o EXCEPT !.media = "none", !.n = 0]

\* the branch of an a=rtpmap line
RtpmapBranch(o, line) ==
  IF o.media = "none" THEN o
  ELSE IF o.n = Current(o).num THEN o
  ELSE IF line.spaces = 0 THEN o
  ELSE LET filled == CheckFormats(1, Current(o), o.n, line.name)
       IN IF o.media = "audio"
          THEN [o EXCEPT !.audio = filled.media, !.n = filled.n]
          ELSE [o EXCEPT !.video = filled.media, !.n = filled.n]

\* what the media sections of the bodies name
MediaNames == {"audio", "video", "text"}

\* the m= lines: two spaces stand before the payload types, one more before
\* each payload type after the first
MediaLines ==
  {[t |-> "m", media |-> m, spaces |-> sp, name |-> <<>>] :
     m \in MediaNames, sp \in 2..4}

\* the codec names of the a=rtpmap lines: names of the table, beginnings of
\* names of the table, the empty name, a name the table does not have
RtpmapNames == {<<"PCM", "U">>, <<"H26", "4">>, <<"H26", "3">>, <<"H26">>, <<>>,
                <<"X">>}

\* the a=rtpmap lines: with a space before the name, and without any space
RtpmapLines ==
  {[t |-> "rtpmap", media |-> "", spaces |-> 1, name |-> nm] : nm \in RtpmapNames}
    \cup {[t |-> "rtpmap", media |-> "", spaces |-> 0, name |-> <<>>]}

OtherLines == {[t |-> "other", media |-> "", spaces |-> 0, name |-> <<>>]}

SdpLines == MediaLines \cup RtpmapLines \cup OtherLines

\* the bodies
SdpBodies == [1..MaxLines -> SdpLines]

\* a write through formats[n] with n outside the array is undefined: the
\* process ends at it, or the write lands somewhere and parsing goes on
StrayOutcomes == {"fault", "lands"}

InitSdp ==
  /\ pc = "call"
  /\ Parked
  /\ \E body \in SdpBodies :
       call = [fn |-> "CreateSDP", in |-> body,
               out |-> [audio |-> NoMedia, video |-> NoMedia, media |-> "none",
                        n |-> 0, i |-> 0, fault |-> FALSE]]

\* the next line of the body is of kind t
NextLine(t) ==
  /\ pc = "call"
  /\ call.fn = "CreateSDP"
  /\ ~call.out.fault
  /\ call.out.i < Len(call.in)
  /\ call.in[call.out.i + 1].t = t

\* one pass of the loop over the lines leaves o
Read(o) ==
  /\ call' = [call EXCEPT !.out = [o EXCEPT !.i = @ + 1]]
  /\ UNCHANGED <<pc, Others>>

MediaLine ==
  /\ NextLine("m")
  /\ Read(MediaBranch(call.out, call.in[call.out.i + 1]))

RtpmapLine ==
  /\ NextLine("rtpmap")
  /\ LET o == RtpmapBranch(call.out, call.in[call.out.i + 1])
     IN IF Current(o).stray > Current(call.out).stray
        THEN \E outcome \in StrayOutcomes :
               Read([o EXCEPT !.fault = (outcome = "fault")])
        ELSE Read(o)

OtherLine ==
  /\ NextLine("other")
  /\ Read(call.out)

NextSdp ==
  \/ MediaLine
  \/ RtpmapLine
  \/ OtherLine

SpecSdp == InitSdp /\ [][NextSdp]_vars

(***************************************************************************)
(* Properties of main_loop as a whole (Spec): the CSeq counter, the        *)
(* keep-alive, the end flag, the sockets.                                  *)
(***************************************************************************)
RtspMethods == {"OPTIONS", "DESCRIBE", "SETUP", "PLAY", "TEARDOWN"}

\* the RTSP requests among those handed to send(), in order
RECURSIVE RtspOf(_)
RtspOf(s) ==
  IF s = <<>> THEN <<>>
  ELSE IF Head(s).method \in RtspMethods THEN <<Head(s)>> \o RtspOf(Tail(s))
       ELSE RtspOf(Tail(s))

\* those of them that were sent
RECURSIVE SentOf(_)
SentOf(s) ==
  IF s = <<>> THEN <<>>
  ELSE IF Head(s).ok THEN <<Head(s)>> \o SentOf(Tail(s)) ELSE SentOf(Tail(s))

\* C31: the CSeq counter starts at 1; a step raises it by the number of
\* RTSP requests it sent, the k-th of which carries the counter's value
\* plus k - 1, and a request whose send failed leaves it as it is.
C31_CSeqCounts ==
  /\ player.cseq = 1
  /\ [][LET rtsp == RtspOf(sent')
            ok == SentOf(rtsp)
        IN /\ player'.cseq = player.cseq + Len(ok)
           /\ \A k \in 1..Len(ok) : ok[k].cseq = player.cseq + (k - 1)
           /\ \A i \in 1..Len(rtsp) :
                /\ rtsp[i].cseq >= player.cseq
                /\ rtsp[i].cseq <= player'.cseq]_vars

\* a request was sent earlier and the send of a later one has failed
C31_Witness ==
  /\ pc \notin {"call", "addsession"}
  /\ player.cseq > 2
  /\ \E i \in 1..Len(sent) : sent[i].method \in RtspMethods /\ ~sent[i].ok

\* C33: a wait that times out reads no field of a speaker that does not
\* exist, and outside PLAYING it sets the end flag in the same pass.
C33_TimeoutEnds ==
  [][(pc = "loop" /\ lastEv'.kind = "timeout")
       => /\ lastEv'.rc = "valid"
          /\ pc' # "crashed"
          /\ (player.state # RTSP_PLAYING) => player'.end = 1]_vars

\* C34: the end flag, once set in a pass, is not cleared by the rest of the
\* pass, whatever is sent there.
C34_EndSticks ==
  [][(call.fn = "keepalive" /\ call.out.end = 1) => call'.out.end = 1]_vars

\* C35: handling a message of the SIP peer leaves the buffered length, the
\* bytes buffered and the pending Content-Length of the RTSP response as
\* they were.
C35_SipLeavesRtspState ==
  [][(call.fn = "describe" /\ call'.out.sipWire # call.out.sipWire)
       => /\ call'.out.bufferLen = call.out.bufferLen
          /\ SubSeq(call'.out.buffer, 1, call.out.bufferLen)
               = SubSeq(call.out.buffer, 1, call.out.bufferLen)
          /\ call'.out.contentLength = call.out.contentLength]_vars

\* C36: when main_loop has returned, no socket of the player or of the
\* speaker is open.
C36_SocketsClosed == (pc = "returned") => open = {}

\* the voice frames that went out as RTP among s
VoicePackets(s) == Sent(s, {"SIP RTP"})

C37_ByeWitness ==
  /\ sip_enable
  /\ lastEv.kind = "sip"
  /\ lastEv.r.method = "BYE"
  /\ enable_sip_tx = 0
  /\ sip_speaker.in_a_dialog = 0
  /\ sip_speaker.peer_tag # NULL

\* the sequence numbers of s
Passed(s) == {s[i] : i \in 1..Len(s)}

\* C38: after a reset, count is the number of updates made since, maxSN the
\* largest and minSN the smallest sequence number passed, minSN <= maxSN,
\* and with no update made they are all 0.
C38_MinMaxCount ==
  (call.fn = "MediaStats" /\ call.out.reset)
    => LET stats == call.out.stats
           seen == call.out.seen
       IN /\ stats.count = Len(seen)
          /\ stats.minSN <= stats.maxSN
          /\ seen = <<>> => stats.minSN = 0 /\ stats.maxSN = 0
          /\ seen # <<>>
               => /\ stats.maxSN \in Passed(seen)
                  /\ stats.minSN \in Passed(seen)
                  /\ \A sn \in Passed(seen) : stats.minSN <= sn /\ sn <= stats.maxSN

\* the codec table has this name
InTable(name) == \E f \in 1..Len(mimeTypes) : mimeTypes[f].name = name

\* the format the table has for a name
FormatOf(name) ==
  mimeTypes[CHOOSE f \in 1..Len(mimeTypes) : mimeTypes[f].name = name].format

\* the step read an a=rtpmap line of CreateSDP's body
ReadRtpmap ==
  /\ call.fn = "CreateSDP"
  /\ call'.out.i = call.out.i + 1
  /\ call.in[call.out.i + 1].t = "rtpmap"

\* C39: an a=rtpmap line with a name of the codec table, read in an audio or
\* video section with an unfilled slot left, fills that slot and no other;
\* an a=rtpmap line read outside a section, with all slots filled or with a
\* name the table does not have fills nothing; and no more slots are filled
\* than the m= line declared.
C39_OneSlotPerRtpmap ==
  /\ [](call.fn = "CreateSDP"
          => /\ call.out.n <= Current(call.out).num
             /\ call.out.audio.stray = 0
             /\ call.out.video.stray = 0
             /\ ~call.out.fault)
  /\ [][ReadRtpmap
        => LET o == call.out
               line == call.in[o.i + 1]
               slot == o.n + 1
           IN IF \/ o.media = "none"
                 \/ o.n >= Current(o).num
                 \/ ~InTable(line.name)
              THEN /\ call'.out.audio = o.audio
                   /\ call'.out.video = o.video
                   /\ call'.out.n = o.n
              ELSE line.spaces > 0
                     => /\ call'.out.n = slot
                        /\ Current(call'.out).formats
                             = [Current(o).formats EXCEPT ![slot] = FormatOf(line.name)]]_vars

====
